---------------------------- MODULE Spec2Model ----------------------------
(***************************************************************************)
(* The streaming session engine of src/App.tsx: authentication, the chat   *)
(* turn (sendMessage / startSSEStream and the XHR handlers), cancellation  *)
(* (stopStreaming) and session reset (clearSession).                       *)
(*                                                                         *)
(* Text is a sequence of tokens.  A token is a run of characters that the  *)
(* model never splits: the line prefix "data: ", the newline, the payload  *)
(* sentinels, the two halves of a JSON response payload and the fragments  *)
(* between them.  A network delivery may end after any token, so a line    *)
(* and a payload can both be cut in the middle.                            *)
(*                                                                         *)
(* One action is one run of a handler up to its next real wait (a fetch,   *)
(* a storage call, a transport event).  The promise continuations that a   *)
(* handler makes runnable (the catch of sendMessage after reject) run as   *)
(* microtasks before any other event and belong to the same action.  State *)
(* updaters (setMessages(prev => ...)) are applied in call order; the one  *)
(* place where a ref changes between the call of an updater and the end of *)
(* the run is sendMessage (AbortReads).                                    *)
(***************************************************************************)
EXTENDS Integers, Sequences, FiniteSets, TLC

\* ------------------------------------------------------------------ bounds
MaxSends == 2
MaxAuths == 2
MaxClears == 1
MaxTicks == 1

\* ------------------------------------------------------------- constants
\* The margin of checkTokenExpiry, in seconds.
REFRESH_MARGIN == 300
\* The clock at startup (1000 s, in milliseconds) and the seconds that pass
\* in one step of the clock: a margin.
Now0 == 1000 * 1000
TickSeconds == REFRESH_MARGIN

\* null / undefined, for a string ref or slot and for a number.
NULL == <<>>
NoNumber == -1
\* parseInt of a stored text that is no number: every comparison with NaN is
\* false.
NaN == -2

\* --------------------------------------------------------------- the text
DATA == "data: "
NL == "\n"
DONE == "[DONE]"
ERR == "Error:"
STATUS == "{\"status\":\"processing\"}"
RCLOSE == "\"}"
EMPTYOBJ == "{}"
\* A response payload is two tokens: {"response":"<fragment> and "}.
ROpen(fragment) == "{\"response\":\"" \o fragment
Fragments == {"Hi", " there", "partial"}

WELCOME == <<"Hi! I'm your AI banking assistant. How can I help you today?">>
STOPPED == <<"Request stopped by user.">>
NO_RESPONSE == <<"No response received. Please try again.">>
CONNECTION_ERROR == <<"Connection error. Please try again.">>
PROCESSING_ERROR == <<"Error processing message">>
SEND_FAILED == <<"Failed to send message. Please try again.">>

\* s.split('\n'): the segments between newlines; n newlines give n+1 segments.
RECURSIVE SplitFrom(_, _, _)
SplitFrom(s, i, cur) ==
    IF i > Len(s) THEN <<cur>>
    ELSE IF s[i] = NL THEN <<cur>> \o SplitFrom(s, i + 1, <<>>)
    ELSE SplitFrom(s, i + 1, Append(cur, s[i]))

Split(s) == SplitFrom(s, 1, <<>>)

\* line.startsWith('data: ')
StartsWithData(line) == Len(line) > 0 /\ line[1] = DATA

\* data.startsWith('Error:')
StartsWithError(data) == Len(data) > 0 /\ data[1] = ERR

\* JSON.parse(data) and the two fields the handler reads. parsed is
\* "throw" when data is not JSON (a payload cut short, free text), else the
\* kind of object: "status" for {"status":"processing"}, "response" for
\* {"response":"<fragments>"}, "other" for an object with neither field.
IsResponsePayload(data) ==
    /\ Len(data) = 2
    /\ \E f \in Fragments : data[1] = ROpen(f)
    /\ data[2] = RCLOSE

JSONParse(data) ==
    IF data = <<STATUS>> THEN [kind |-> "status", response |-> <<>>]
    ELSE IF IsResponsePayload(data)
        THEN [kind |-> "response",
              response |-> <<CHOOSE f \in Fragments : data[1] = ROpen(f)>>]
    ELSE IF data = <<EMPTYOBJ>> THEN [kind |-> "other", response |-> <<>>]
    ELSE [kind |-> "throw", response |-> <<>>]

\* The state the loop of xhr.onprogress carries from line to line:
\*   cur          currentMessageRef.current
\*   isProcessing the closure flag
\*   applied      a delta update of the message was queued (setMessages)
\*   stop         "none" | "done" ([DONE]: return) | "throw" (Error: frame)
\*   errData      the text of the thrown Error
\*   early        a frame was handled from the last segment of the split,
\*                the part of the text with no newline after it yet
LoopInit(cur, isProcessing) ==
    [cur |-> cur, isProcessing |-> isProcessing, applied |-> FALSE,
     stop |-> "none", errData |-> <<>>, early |-> FALSE]

\* A frame was handled; last: it came from the last segment of the split.
Note(st, last) == [st EXCEPT !.early = @ \/ last]

\* A loop that shows the status marker as text: not the code's. The
\* property of the status frame tells the two apart.
StatusAsContent(st, line, last) ==
    IF ~StartsWithData(line) THEN st
    ELSE LET data == Tail(line) IN
         IF data = <<DONE>> THEN [Note(st, last) EXCEPT !.stop = "done"]
         ELSE IF StartsWithError(data)
             THEN [Note(st, last) EXCEPT !.stop = "throw", !.errData = data]
         ELSE LET parsed == JSONParse(data) IN
              IF parsed.kind = "status"
                  THEN [Note(st, last) EXCEPT !.isProcessing = TRUE,
                           !.cur = @ \o <<"processing">>, !.applied = TRUE]
              ELSE IF parsed.kind = "response"
                  THEN [Note(st, last) EXCEPT
                           !.cur = @ \o parsed.response, !.applied = TRUE]
              ELSE st

\* One iteration of `for (const line of lines)`.
ProcessLine(st, line, last) ==
    IF ~StartsWithData(line) THEN st
    ELSE LET data == Tail(line) IN
         IF data = <<DONE>> THEN [Note(st, last) EXCEPT !.stop = "done"]
         ELSE IF StartsWithError(data)
             THEN [Note(st, last) EXCEPT !.stop = "throw", !.errData = data]
         ELSE LET parsed == JSONParse(data) IN
              IF parsed.kind = "status"
                  THEN [Note(st, last) EXCEPT !.isProcessing = TRUE]
              ELSE IF parsed.kind = "response"
                  THEN [Note(st, last) EXCEPT
                           !.cur = @ \o parsed.response, !.applied = TRUE]
              ELSE st

\* A loop that the [DONE] frame does not end: not the code's. The property
\* of [DONE] tells the two apart.
RECURSIVE LoopPastDone(_, _, _)
LoopPastDone(st, lines, i) ==
    IF i > Len(lines) \/ st.stop = "throw" THEN st
    ELSE LoopPastDone(ProcessLine(st, lines[i], i = Len(lines)), lines, i + 1)

\* The loop, stopped by the return of [DONE] and by the throw of Error:.
RECURSIVE ProcessLines(_, _, _)
ProcessLines(st, lines, i) ==
    IF i > Len(lines) \/ st.stop # "none" THEN st
    ELSE ProcessLines(ProcessLine(st, lines[i], i = Len(lines)), lines, i + 1)

\* What one progress event does with the text newData.
Feed(cur, isProcessing, newData) ==
    LET lines == Split(newData) IN ProcessLines(LoopInit(cur, isProcessing), lines, 1)


\* No trimming at all: not the code's. The property of the rejected
\* sendMessage tells the two apart.
KeepsBlanks(s) == s

\* input.trim(): whitespace is the token " ".
RECURSIVE TrimLeft(_)
TrimLeft(s) == IF Len(s) > 0 /\ s[1] = " " THEN TrimLeft(Tail(s)) ELSE s

RECURSIVE TrimRight(_)
TrimRight(s) ==
    IF Len(s) > 0 /\ s[Len(s)] = " " THEN TrimRight(SubSeq(s, 1, Len(s) - 1)) ELSE s

Trim(s) == TrimRight(TrimLeft(s))

\* ------------------------------------------------------------ the inputs
\* What the user can type.
Inputs == {<<" ", "hi", " ">>}
\* The same, and a text of whitespace alone.
StreamInputs == Inputs \cup {<<" ">>}

\* The bodies the chat endpoint can answer with. The backend may end the
\* response after any token of a body, so every prefix is a body too.
Scripts ==
    { <<DATA, STATUS, NL, DATA, ROpen("Hi"), RCLOSE, NL,
        DATA, ROpen(" there"), RCLOSE, NL, DATA, DONE, NL>>,
      <<DATA, ERR, "insufficient funds", NL, DATA, ROpen("partial"), RCLOSE, NL>> }

\* The bodies of a terse backend: a status frame, or one fragment.
ShortScripts ==
    { <<DATA, STATUS, NL>>, <<DATA, ROpen("Hi"), RCLOSE, NL>> }

\* Bodies that depart from the protocol. One has frames the handler does not
\* know: a payload that is no JSON and an object with neither status nor
\* response, each before a response frame. One goes on after [DONE].
MALFORMED == "<html>"
OddScripts ==
    { <<DATA, MALFORMED, NL, DATA, ROpen("Hi"), RCLOSE, NL,
        DATA, EMPTYOBJ, NL, DATA, ROpen(" there"), RCLOSE, NL>>,
      <<DATA, ROpen("Hi"), RCLOSE, NL, DATA, DONE, NL,
        DATA, ROpen(" there"), RCLOSE, NL>> }

\* The HTTP status of a completed chat request.
Statuses == {200, 500}

\* What a call of POST /auth can come to. A body carries a token, a session
\* id and expires_at; each may be missing, and expires_at is whatever number
\* the backend sends.
AuthOutcomes ==
    {"net_error", "http_error", "no_token", "no_session", "no_expiry",
     "ok_long", "ok_zero"}

\* The lifetime, in seconds, of the credentials the backend issues, and
\* that of a stored credential that outlives the run.
LongLife == 2 * REFRESH_MARGIN
StreamLife == 12 * REFRESH_MARGIN

Seconds(ms) == ms \div 1000

\* The three persisted slots at startup: nothing stored, or the credential
\* of an earlier run.
NoStore == [token |-> NULL, session |-> NULL, expiry |-> NoNumber]
StoredCred(life) ==
    [token |-> <<"tok", 0>>, session |-> <<"sid", 0>>,
     expiry |-> Seconds(Now0) + life]
InitialStores == {NoStore, StoredCred(LongLife)}

\* What an earlier run, or a damaged store, can have left in the slots: each
\* of the token and the session id there or not, and an expiry that is
\* missing, no number, past or ahead.
StartupStores ==
    [token : {NULL, StoredCred(LongLife).token},
     session : {NULL, StoredCred(LongLife).session},
     expiry : {NoNumber, NaN, Seconds(Now0) - REFRESH_MARGIN,
               StoredCred(LongLife).expiry}]

\* ------------------------------------------------------------- the state
VARIABLES
    messages,           \* useState<Message[]>
    input,              \* useState('')
    loading,            \* useState(false)
    authLoading,        \* useState(true)
    isAuthenticated,    \* useState(false)
    xhrRef,             \* useRef<XMLHttpRequest | null>: 0 is null
    currentMessageRef,  \* useRef<string>('')
    tokenRef,           \* useRef<string | null>
    sessionIdRef,       \* useRef<string | null>
    tokenExpiryRef,     \* useRef<number | null>
    storage,            \* AsyncStorage: auth_token, session_id, token_expiry
    xhrs,               \* the chat requests, one per turn, in creation order
    calls,              \* the async calls waiting for a fetch or for storage
    backend,            \* the bodies the chat endpoint of this run answers with
    now,                \* Date.now(), in milliseconds
    nSends,             \* sendMessage calls accepted so far
    nAuths,             \* POST /auth calls made so far
    nClears,            \* clearSession calls so far
    streamingRef,           \* app2.txt: useRef(false)
    currentStreamingIdRef,  \* app2.txt: useRef<string | null>(null)
    abortControllerRef,     \* app2.txt: useRef<AbortController | null>: 0 is null
    turns                   \* app2.txt: the sendMessage calls, in creation order

vars ==
    <<messages, input, loading, authLoading, isAuthenticated, xhrRef,
      currentMessageRef, tokenRef, sessionIdRef, tokenExpiryRef, storage, xhrs,
      calls, backend, now, nSends, nAuths, nClears,
      streamingRef, currentStreamingIdRef, abortControllerRef, turns>>

\* The refs of the polling variant (the first App of app2.txt) and its
\* sendMessage calls. The other programs have none of them.
app2 == <<streamingRef, currentStreamingIdRef, abortControllerRef, turns>>

NoApp2 ==
    /\ streamingRef = FALSE
    /\ currentStreamingIdRef = <<>>
    /\ abortControllerRef = 0
    /\ turns = <<>>

\* ----------------------------------------------------------- the messages
\* The field turn is not a field of the code's Message: it names the turn
\* that created the message (0: the welcome message), so that a property can
\* speak of "the placeholder of turn k" when two ids are equal.
WelcomeMessage ==
    [id |-> <<1, "">>, role |-> "assistant", content |-> WELCOME,
     isStreaming |-> FALSE, error |-> FALSE, turn |-> 0]

UserId(t) == <<t, "">>
AssistantId(t) == <<t, "-ai">>

UserMessage(t, text, turn) ==
    [id |-> UserId(t), role |-> "user", content |-> text,
     isStreaming |-> FALSE, error |-> FALSE, turn |-> turn]

\* A placeholder that is appended complete: not the code's. The property of
\* the appended pair tells the two apart.
PlaceholderIdle(t, turn) ==
    [id |-> AssistantId(t), role |-> "assistant", content |-> <<>>,
     isStreaming |-> FALSE, error |-> FALSE, turn |-> turn]

\* {id: assistantMessageId, role: 'assistant', content: '', isStreaming: true}
Placeholder(t, turn) ==
    [id |-> AssistantId(t), role |-> "assistant", content |-> <<>>,
     isStreaming |-> TRUE, error |-> FALSE, turn |-> turn]

\* A delta that takes the place of the content: not the code's. The property
\* of the order of the deltas tells the two apart.
DeltaReplaces(msgs, messageId, cur) ==
    [i \in DOMAIN msgs |->
        IF msgs[i].id = messageId
        THEN [msgs[i] EXCEPT !.content = <<cur[Len(cur)]>>, !.isStreaming = TRUE]
        ELSE msgs[i]]

\* prev.map(msg => msg.id === messageId ? {...msg, content, isStreaming: true} : msg)
DeltaMessages(msgs, messageId, cur) ==
    [i \in DOMAIN msgs |->
        IF msgs[i].id = messageId
        THEN [msgs[i] EXCEPT !.content = cur, !.isStreaming = TRUE]
        ELSE msgs[i]]

\* ... ? {...msg, isStreaming: false, content: currentMessageRef.current} : msg
CompleteMessages(msgs, messageId, cur) ==
    [i \in DOMAIN msgs |->
        IF msgs[i].id = messageId
        THEN [msgs[i] EXCEPT !.content = cur, !.isStreaming = FALSE]
        ELSE msgs[i]]

\* ... ? {...msg, content: <text>, isStreaming: false, error: true} : msg
ErrorMessages(msgs, messageId, text) ==
    [i \in DOMAIN msgs |->
        IF msgs[i].id = messageId
        THEN [msgs[i] EXCEPT !.content = text, !.isStreaming = FALSE, !.error = TRUE]
        ELSE msgs[i]]

\* An abort handler that drops what was streamed: not the code's. The
\* property of cancellation tells the two apart.
AbortDropsContent(msgs, messageId, cur) ==
    [i \in DOMAIN msgs |->
        IF msgs[i].id = messageId
        THEN [msgs[i] EXCEPT !.content = STOPPED, !.isStreaming = FALSE]
        ELSE msgs[i]]

\* xhr.onabort: content: currentMessageRef.current || 'Request stopped by user.'
AbortMessages(msgs, messageId, cur) ==
    [i \in DOMAIN msgs |->
        IF msgs[i].id = messageId
        THEN [msgs[i] EXCEPT !.content = IF cur # <<>> THEN cur ELSE STOPPED,
                             !.isStreaming = FALSE]
        ELSE msgs[i]]

\* A catch that marks the message and leaves its content alone: not the
\* code's. The properties of the failure text tell the two apart.
CatchKeepsContent(msgs, messageId) ==
    LET hits == {i \in DOMAIN msgs : msgs[i].id = messageId} IN
    IF hits = {} THEN msgs
    ELSE LET first == CHOOSE i \in hits : \A j \in hits : i <= j IN
         [msgs EXCEPT ![first].isStreaming = FALSE, ![first].error = TRUE]

\* A catch that finds its message by the clock reading of the id alone: not
\* the code's. The property of the user messages tells the two apart.
CatchByTime(msgs, messageId) ==
    LET hits == {i \in DOMAIN msgs : msgs[i].id[1] = messageId[1]} IN
    IF hits = {} THEN msgs
    ELSE LET first == CHOOSE i \in hits : \A j \in hits : i <= j IN
         [msgs EXCEPT ![first].content = SEND_FAILED,
                      ![first].isStreaming = FALSE,
                      ![first].error = TRUE]

\* The catch of sendMessage: findIndex takes the first message with the id.
CatchMessages(msgs, messageId) ==
    LET hits == {i \in DOMAIN msgs : msgs[i].id = messageId} IN
    IF hits = {} THEN msgs
    ELSE LET first == CHOOSE i \in hits : \A j \in hits : i <= j IN
         [msgs EXCEPT ![first].content = SEND_FAILED,
                      ![first].isStreaming = FALSE,
                      ![first].error = TRUE]

\* stopStreaming: prev.map(msg => msg.isStreaming ? {...} : msg)
StopMessages(msgs) ==
    [i \in DOMAIN msgs |->
        IF msgs[i].isStreaming
        THEN [msgs[i] EXCEPT !.isStreaming = FALSE,
                             !.content = IF @ # <<>> THEN @ ELSE STOPPED]
        ELSE msgs[i]]


\* ------------------------------------------------------------ the requests
\* One record per turn. The fields of the code: messageId, buffer (its
\* length), isProcessing, the Authorization token and the session id of the
\* url. The fields of the transport: opened (xhr.send was reached), live
\* (sent and not yet completed, failed or aborted), script (the body the
\* backend answers with), rcvd (the length of xhr.responseText), status.
\* The other fields record what happened, for the properties:
\*   heldExpiry, acceptedAt  tokenExpiryRef and the clock when sendMessage
\*                           passed its guards (heldToken and heldSession of
\*                           the call are its locals token and sessionId)
\*   refreshed, refreshFailed  checkTokenExpiry called /auth; the call failed
\*   openExpiry, openedAt    tokenExpiryRef and the clock at xhr.send
\*   acc                     the delta text of this request, concatenated
\*   early                   a frame was handled before its newline arrived
\*   errData                 the text of the last Error: frame
\*   ended                   "none" | "done" | "load" | "error" | "abort"
\*   again                   a progress event came with the text of the one before
\*   stopped                 stopStreaming was called while the request was in flight
\* A request that is sent with the token and the session id sendMessage read
\* before checkTokenExpiry: not the code's. The property of the credential
\* of the request tells the two apart.
SendsHeldCredential(messageId, opened, script, tok, sid, exp, t, ghost) ==
    [messageId |-> messageId, opened |-> opened, live |-> opened,
     script |-> script, rcvd |-> 0, buffer |-> 0, isProcessing |-> FALSE,
     token |-> ghost.heldToken, sessionId |-> ghost.heldSession, status |-> 0,
     heldExpiry |-> ghost.heldExpiry, acceptedAt |-> ghost.acceptedAt,
     refreshed |-> ghost.refreshed, refreshFailed |-> ghost.refreshFailed,
     openExpiry |-> exp, openedAt |-> t,
     acc |-> <<>>, early |-> FALSE, errData |-> <<>>, ended |-> "none",
     again |-> FALSE, stopped |-> FALSE]

NewXhr(messageId, opened, script, tok, sid, exp, t, ghost) ==
    [messageId |-> messageId, opened |-> opened, live |-> opened,
     script |-> script, rcvd |-> 0, buffer |-> 0, isProcessing |-> FALSE,
     token |-> tok, sessionId |-> sid, status |-> 0,
     heldExpiry |-> ghost.heldExpiry, acceptedAt |-> ghost.acceptedAt,
     refreshed |-> ghost.refreshed, refreshFailed |-> ghost.refreshFailed,
     openExpiry |-> exp, openedAt |-> t,
     acc |-> <<>>, early |-> FALSE, errData |-> <<>>, ended |-> "none",
     again |-> FALSE, stopped |-> FALSE]

\* A request that is over keeps nothing the program can reach: its closure
\* (buffer, isProcessing) and its response are garbage. When the next turn
\* is opened the record of a finished request is cut down to its message id
\* and the way it ended.
Retire(r) ==
    IF r.live THEN r
    ELSE [NewXhr(r.messageId, FALSE, <<>>, NULL, NULL, NoNumber, 0,
                 [heldToken |-> NULL, heldSession |-> NULL,
                  heldExpiry |-> NoNumber, acceptedAt |-> 0,
                  refreshed |-> FALSE, refreshFailed |-> FALSE])
             EXCEPT !.ended = r.ended]

Retired(xs) == [i \in DOMAIN xs |-> Retire(xs[i])]

\* xhr.abort() on the request xhrRef.current: the abort event is dispatched
\* before abort() returns, and only for a request that is still in flight.
AbortFires == xhrRef # 0 /\ xhrs[xhrRef].live

\* xhr.onabort, on the message log; cur is what its updater reads from
\* currentMessageRef.
OnAbortMessagesWith(msgs, cur) ==
    IF AbortFires
    THEN AbortMessages(msgs, xhrs[xhrRef].messageId, cur)
    ELSE msgs

OnAbortMessages(msgs) == OnAbortMessagesWith(msgs, currentMessageRef)

\* What the updater of xhr.onabort reads when sendMessage aborts the
\* request of the turn before: sendMessage clears currentMessageRef in the
\* same run, after the abort. A React that applies the update at the call
\* reads the text streamed so far; one that batches the updates of the run
\* applies it after the ref was cleared.
AbortReads == {currentMessageRef, <<>>}

\* An abort that leaves the request in flight: not the code's. The
\* property of the single request tells the two apart.
AbortLeavesInFlight == xhrs

OnAbortXhrs ==
    IF AbortFires
    THEN [xhrs EXCEPT ![xhrRef].live = FALSE, ![xhrRef].ended = "abort"]
    ELSE xhrs

\* A check that refreshes whatever the expiry is: not the code's. The
\* property of the valid credential tells the two apart.
RefreshesAlways(exp, t) == exp # NoNumber /\ exp # 0

\* checkTokenExpiry: tokenExpiryRef.current && tokenExpiryRef.current <= now + 300,
\* with now = Date.now() / 1000.
NeedsRefresh(exp, t) ==
    /\ exp # NoNumber
    /\ exp # 0
    /\ exp * 1000 <= t + REFRESH_MARGIN * 1000

\* sendMessage from the abort of the previous request to the end of
\* startSSEStream, reading the refs as they are when it runs; t is the
\* reading of Date.now().
OpenTurn(t, text, ghost, script) ==
    \E cur \in AbortReads :
    LET turn == Len(xhrs) + 1
        messageId == AssistantId(t)
        msgs1 == OnAbortMessagesWith(messages, cur)
        msgs2 == Append(msgs1, UserMessage(t, text, turn))
        msgs3 == Append(msgs2, Placeholder(t, turn))
        canOpen == tokenRef' # NULL /\ sessionIdRef' # NULL
    IN  /\ input' = <<>>
        /\ currentMessageRef' = <<>>
        /\ IF canOpen
           THEN /\ messages' = msgs3
                /\ loading' = TRUE
                /\ xhrRef' = turn
                /\ xhrs' = Append(Retired(OnAbortXhrs),
                       NewXhr(messageId, TRUE, script, tokenRef', sessionIdRef',
                              tokenExpiryRef', t, ghost))
           ELSE \* startSSEStream throws: its catch, then the catch of sendMessage
                /\ messages' = CatchMessages(
                       ErrorMessages(msgs3, messageId, PROCESSING_ERROR), messageId)
                /\ loading' = FALSE
                /\ xhrRef' = 0
                /\ xhrs' = Append(Retired(OnAbortXhrs),
                       NewXhr(messageId, FALSE, <<>>, tokenRef', sessionIdRef',
                              tokenExpiryRef', t, ghost))

\* ---------------------------------------------------------- the async calls
\* kind: who awaits ("init", "send", "clear", "retry"); pc: what it awaits
\* ("getItems", "fetch", "store", "remove"); n: the number of its /auth
\* call; cred: the credential of the response, while it is being stored.
NoCred == [token |-> NULL, session |-> NULL, expiry |-> NoNumber]
NoGhost == [heldToken |-> NULL, heldSession |-> NULL,
            heldExpiry |-> NoNumber, acceptedAt |-> 0,
            refreshed |-> FALSE, refreshFailed |-> FALSE]

Call(kind, pc, n, text, ghost) ==
    [kind |-> kind, pc |-> pc, n |-> n, text |-> text, ghost |-> ghost,
     cred |-> NoCred]

RemoveAt(s, i) == SubSeq(s, 1, i - 1) \o SubSeq(s, i + 1, Len(s))

Slots == {"token", "session", "expiry"}

\* AsyncStorage after the writes `written` of the credential cred went through.
Written(store, cred, written) ==
    [k \in Slots |-> IF k \in written THEN cred[k] ELSE store[k]]

\* AsyncStorage after the removals `removed` went through.
Removed(store, removed) ==
    [k \in Slots |-> IF k \in removed THEN NoStore[k] ELSE store[k]]


\* ------------------------------------------------------------- the clock
\* Date.now() at a press or a keystroke of the user. Two of them are at
\* least a millisecond apart, and so are one of them and whatever the
\* program did before it. The model moves the clock only where the program
\* can tell: when the present reading is the id of a message. (The checks
\* of the expiry compare whole seconds and are the same a few milliseconds
\* later; only the ids read the milliseconds.)
Paced ==
    IF \E i \in DOMAIN messages : messages[i].id[1] = now THEN now + 1 ELSE now

\* Date.now() when an answer of the network or of the storage is handled:
\* the millisecond of the step before, or a later one.
Readings == {now, Paced}

\* ------------------------------------------------------------------- Init
\* The state after the first render: the useState and useRef initial values,
\* initializeAuth started by the mount effect and waiting for its getItem
\* calls, and whatever an earlier run left in AsyncStorage.
Init ==
    /\ messages = <<WelcomeMessage>>
    /\ input = <<>>
    /\ loading = FALSE
    /\ authLoading = TRUE
    /\ isAuthenticated = FALSE
    /\ xhrRef = 0
    /\ currentMessageRef = <<>>
    /\ tokenRef = NULL
    /\ sessionIdRef = NULL
    /\ tokenExpiryRef = NoNumber
    /\ storage \in InitialStores
    /\ xhrs = <<>>
    /\ calls = <<Call("init", "getItems", 0, <<>>, NoGhost)>>
    /\ backend = ShortScripts
    /\ NoApp2
    /\ now = Now0
    /\ nSends = 0
    /\ nAuths = 0
    /\ nClears = 0

\* --------------------------------------------------------- authentication
\* The end of an authenticate() call: authenticate catches everything, so
\* its caller always goes on. initializeAuth reaches its finally,
\* sendMessage goes on to open the turn, clearSession and Retry are done.
AfterAuthenticate(c, failed) ==
    IF c.kind = "send"
    THEN /\ \E t \in Readings :
               /\ now' = t
               /\ \E script \in backend :
                      OpenTurn(t, c.text, [c.ghost EXCEPT !.refreshFailed = failed],
                               script)
         /\ UNCHANGED authLoading
    ELSE /\ authLoading' = IF c.kind = "init" THEN FALSE ELSE authLoading
         /\ UNCHANGED <<messages, input, loading, xhrRef, currentMessageRef, xhrs,
                        now>>

\* A startup that does not look at the stored session id: not the code's.
\* The property of the stored credential tells the two apart.
AdoptsWithoutSession(i) ==
    /\ calls[i].pc = "getItems"
    /\ LET expiry == IF storage.expiry # NoNumber THEN storage.expiry ELSE 0 IN
       IF /\ storage.token # NULL
          /\ expiry # NaN /\ expiry * 1000 > now
       THEN /\ tokenRef' = storage.token
            /\ sessionIdRef' = storage.session
            /\ tokenExpiryRef' = expiry
            /\ isAuthenticated' = TRUE
            /\ authLoading' = FALSE
            /\ calls' = RemoveAt(calls, i)
            /\ UNCHANGED nAuths
       ELSE /\ nAuths < MaxAuths
            /\ calls' = [calls EXCEPT ![i].pc = "fetch", ![i].n = nAuths + 1]
            /\ nAuths' = nAuths + 1
            /\ UNCHANGED <<tokenRef, sessionIdRef, tokenExpiryRef, isAuthenticated,
                           authLoading>>
    /\ UNCHANGED <<app2, backend, messages, input, loading, xhrRef, currentMessageRef, storage,
                   xhrs, now, nSends, nClears>>

\* initializeAuth after Promise.all of the three getItem calls.
InitLoaded(i) ==
    /\ calls[i].pc = "getItems"
    /\ LET expiry == IF storage.expiry # NoNumber THEN storage.expiry ELSE 0 IN
       IF /\ storage.token # NULL /\ storage.session # NULL
          /\ expiry # NaN /\ expiry * 1000 > now
       THEN /\ tokenRef' = storage.token
            /\ sessionIdRef' = storage.session
            /\ tokenExpiryRef' = expiry
            /\ isAuthenticated' = TRUE
            /\ authLoading' = FALSE
            /\ calls' = RemoveAt(calls, i)
            /\ UNCHANGED nAuths
       ELSE /\ nAuths < MaxAuths
            /\ calls' = [calls EXCEPT ![i].pc = "fetch", ![i].n = nAuths + 1]
            /\ nAuths' = nAuths + 1
            /\ UNCHANGED <<tokenRef, sessionIdRef, tokenExpiryRef, isAuthenticated,
                           authLoading>>
    /\ UNCHANGED <<app2, backend, messages, input, loading, xhrRef, currentMessageRef, storage,
                   xhrs, now, nSends, nClears>>

\* initializeAuth when a getItem call rejects: its catch shows the alert.
InitStorageError(i) ==
    /\ calls[i].pc = "getItems"
    /\ authLoading' = FALSE
    /\ calls' = RemoveAt(calls, i)
    /\ UNCHANGED <<app2, backend, messages, input, loading, isAuthenticated, xhrRef,
                   currentMessageRef, tokenRef, sessionIdRef, tokenExpiryRef,
                   storage, xhrs, now, nSends, nAuths, nClears>>

\* The credential of the response of the /auth call c.n.
ResponseCred(c, outcome) ==
    [token |-> <<"tok", c.n>>, session |-> <<"sid", c.n>>,
     expiry |-> CASE outcome = "ok_long" -> Seconds(now) + LongLife
                  [] outcome = "ok_zero" -> 0
                  [] OTHER -> NoNumber]

\* An authenticate that calls /auth again by itself when the call failed:
\* not the code's. The property of the retries tells the two apart.
RetriesSilently(i, outcome) ==
    LET c == calls[i]
        cred == ResponseCred(c, outcome)
    IN  /\ c.pc = "fetch"
        /\ IF outcome \in {"net_error", "http_error", "no_token", "no_session"}
           THEN /\ nAuths < MaxAuths
                /\ calls' = [calls EXCEPT ![i].n = nAuths + 1]
                /\ nAuths' = nAuths + 1
                /\ UNCHANGED <<tokenRef, sessionIdRef, tokenExpiryRef, storage,
                               messages, input, loading, authLoading, xhrRef,
                               currentMessageRef, xhrs, now>>
           ELSE /\ tokenRef' = cred.token
                /\ sessionIdRef' = cred.session
                /\ tokenExpiryRef' = cred.expiry
                /\ IF outcome = "no_expiry"
                   THEN /\ storage' = Written(storage, cred, {"token", "session"})
                        /\ calls' = RemoveAt(calls, i)
                        /\ AfterAuthenticate(c, TRUE)
                   ELSE /\ calls' = [calls EXCEPT ![i].pc = "store", ![i].cred = cred]
                        /\ UNCHANGED <<messages, input, loading, authLoading, xhrRef,
                                       currentMessageRef, storage, xhrs, now>>
                /\ UNCHANGED nAuths
        /\ UNCHANGED <<app2, backend, isAuthenticated, nSends, nClears>>

\* authenticate from the answer of fetch to its next wait. A network error,
\* a non-2xx answer and a body without token or session_id throw before any
\* ref is written. Otherwise the three refs are written; a body without
\* expires_at then throws at expires_at.toString(), after the setItem calls
\* for the token and the session id were made.
AuthResponse(i, outcome) ==
    LET c == calls[i]
        cred == ResponseCred(c, outcome)
    IN  /\ c.pc = "fetch"
        /\ IF outcome \in {"net_error", "http_error", "no_token", "no_session"}
           THEN /\ calls' = RemoveAt(calls, i)
                /\ UNCHANGED <<tokenRef, sessionIdRef, tokenExpiryRef, storage>>
                /\ AfterAuthenticate(c, TRUE)
           ELSE /\ tokenRef' = cred.token
                /\ sessionIdRef' = cred.session
                /\ tokenExpiryRef' = cred.expiry
                /\ IF outcome = "no_expiry"
                   THEN /\ storage' = Written(storage, cred, {"token", "session"})
                        /\ calls' = RemoveAt(calls, i)
                        /\ AfterAuthenticate(c, TRUE)
                   ELSE /\ calls' = [calls EXCEPT ![i].pc = "store", ![i].cred = cred]
                        /\ UNCHANGED <<messages, input, loading, authLoading, xhrRef,
                                       currentMessageRef, storage, xhrs, now>>
        /\ UNCHANGED <<app2, backend, isAuthenticated, nSends, nAuths, nClears>>

\* authenticate after Promise.all of the three setItem calls: `written` are
\* the writes that went through. All three: setIsAuthenticated(true). Fewer:
\* Promise.all rejects and the catch shows the alert.
StoreDone(i, written) ==
    LET c == calls[i] IN
    /\ c.pc = "store"
    /\ storage' = Written(storage, c.cred, written)
    /\ calls' = RemoveAt(calls, i)
    /\ UNCHANGED <<tokenRef, sessionIdRef, tokenExpiryRef>>
    /\ IF written = Slots
       THEN /\ isAuthenticated' = TRUE
            /\ AfterAuthenticate(c, FALSE)
       ELSE /\ UNCHANGED isAuthenticated
            /\ AfterAuthenticate(c, TRUE)
    /\ UNCHANGED <<app2, backend, nSends, nAuths, nClears>>

\* The Retry Connection button of the "Authentication Required" screen:
\* authenticate(). (The alerts of authenticate and initializeAuth carry a
\* Retry button that makes the same call; the model's user dismisses them.)
RetryConnection ==
    /\ now' = Paced
    /\ ~authLoading
    /\ ~isAuthenticated
    /\ nAuths < MaxAuths
    /\ calls' = Append(calls, Call("retry", "fetch", nAuths + 1, <<>>, NoGhost))
    /\ nAuths' = nAuths + 1
    /\ UNCHANGED <<app2, backend, messages, input, loading, authLoading, isAuthenticated, xhrRef,
                   currentMessageRef, tokenRef, sessionIdRef, tokenExpiryRef,
                   storage, xhrs, nSends, nClears>>

\* --------------------------------------------------------------- the turn
\* onChangeText of the text input, which is editable while not loading.
SetInput(text) ==
    /\ isAuthenticated
    /\ ~loading
    /\ text # input
    /\ input' = text
    /\ now' = Paced
    /\ UNCHANGED <<app2, backend, messages, loading, authLoading, isAuthenticated, xhrRef,
                   currentMessageRef, tokenRef, sessionIdRef, tokenExpiryRef,
                   storage, xhrs, calls, nSends, nAuths, nClears>>

\* The guards of sendMessage.
Accepts ==
    /\ Trim(input) # <<>>
    /\ ~loading
    /\ isAuthenticated
    /\ tokenRef # NULL
    /\ sessionIdRef # NULL

\* sendMessage up to its first real wait. With no refresh due,
\* checkTokenExpiry returns at once and the turn is opened in the same run;
\* otherwise authenticate() is called and sendMessage waits for it.
SendMessage ==
    /\ Accepts
    /\ nSends < MaxSends
    /\ nSends' = nSends + 1
    /\ now' = Paced
    /\ LET t == Paced
           ghost == [heldToken |-> tokenRef, heldSession |-> sessionIdRef,
                     heldExpiry |-> tokenExpiryRef, acceptedAt |-> t,
                     refreshed |-> NeedsRefresh(tokenExpiryRef, t),
                     refreshFailed |-> FALSE]
       IN IF NeedsRefresh(tokenExpiryRef, t)
          THEN /\ nAuths < MaxAuths
               /\ calls' = Append(calls,
                      Call("send", "fetch", nAuths + 1, Trim(input), ghost))
               /\ nAuths' = nAuths + 1
               /\ UNCHANGED <<messages, input, loading, xhrRef, currentMessageRef,
                              tokenRef, sessionIdRef, tokenExpiryRef, xhrs>>
          ELSE /\ UNCHANGED <<tokenRef, sessionIdRef, tokenExpiryRef, calls, nAuths>>
               /\ \E script \in backend : OpenTurn(t, Trim(input), ghost, script)
    /\ UNCHANGED <<app2, authLoading, isAuthenticated, storage, backend, nClears>>

\* A handler that never moves its offset (buffer stays empty): not the
\* code's. The property of the repeated event tells the two apart.
ProgressKeepsOffset(x, n, again) ==
    LET r == xhrs[x]
        newData == SubSeq(r.script, r.buffer + 1, n)
        st == Feed(currentMessageRef, r.isProcessing, newData)
        msgs1 == IF st.applied
                 THEN DeltaMessages(messages, r.messageId, st.cur)
                 ELSE messages
        gained == SubSeq(st.cur, Len(currentMessageRef) + 1, Len(st.cur))
        r1 == [r EXCEPT !.rcvd = n, !.again = @ \/ again,
                        !.isProcessing = st.isProcessing,
                        !.acc = @ \o gained,
                        !.early = @ \/ st.early,
                        !.errData = IF st.stop = "throw" THEN st.errData ELSE @]
    IN  /\ r.live
        /\ currentMessageRef' = st.cur
        /\ IF st.stop = "done"
           THEN /\ xhrRef' = 0
                /\ messages' = CompleteMessages(
                       AbortMessages(msgs1, r.messageId, st.cur), r.messageId, st.cur)
                /\ loading' = FALSE
                /\ xhrs' = [xhrs EXCEPT ![x] =
                               [r1 EXCEPT !.live = FALSE, !.ended = "done"]]
           ELSE /\ messages' = msgs1
                /\ xhrs' = [xhrs EXCEPT ![x] = r1]
                /\ UNCHANGED <<xhrRef, loading>>
        /\ UNCHANGED <<app2, backend, input, authLoading, isAuthenticated, tokenRef, sessionIdRef,
                       tokenExpiryRef, storage, calls, now, nSends,
                       nAuths, nClears>>

\* The handler xhr.onprogress of request x, with a response text of n tokens.
\* The [DONE] branch clears xhrRef and aborts the request, which runs
\* xhr.onabort before the branch goes on. The throw of the Error: branch
\* leaves the handler: no catch is on the stack of a transport event, the
\* event dispatcher reports the exception and the request stays in flight.
Progress(x, n, again) ==
    LET r == xhrs[x]
        newData == SubSeq(r.script, r.buffer + 1, n)
        st == Feed(currentMessageRef, r.isProcessing, newData)
        msgs1 == IF st.applied
                 THEN DeltaMessages(messages, r.messageId, st.cur)
                 ELSE messages
        gained == SubSeq(st.cur, Len(currentMessageRef) + 1, Len(st.cur))
        r1 == [r EXCEPT !.rcvd = n, !.buffer = n, !.again = @ \/ again,
                        !.isProcessing = st.isProcessing,
                        !.acc = @ \o gained,
                        !.early = @ \/ st.early,
                        !.errData = IF st.stop = "throw" THEN st.errData ELSE @]
    IN  /\ r.live
        /\ currentMessageRef' = st.cur
        /\ IF st.stop = "done"
           THEN /\ xhrRef' = 0
                /\ messages' = CompleteMessages(
                       AbortMessages(msgs1, r.messageId, st.cur), r.messageId, st.cur)
                /\ loading' = FALSE
                /\ xhrs' = [xhrs EXCEPT ![x] =
                               [r1 EXCEPT !.live = FALSE, !.ended = "done"]]
           ELSE /\ messages' = msgs1
                /\ xhrs' = [xhrs EXCEPT ![x] = r1]
                /\ UNCHANGED <<xhrRef, loading>>
        /\ UNCHANGED <<app2, backend, input, authLoading, isAuthenticated, tokenRef, sessionIdRef,
                       tokenExpiryRef, storage, calls, now, nSends,
                       nAuths, nClears>>

\* xhr.onprogress of request x: the response text has grown to n tokens.
OnProgress(x, n) ==
    /\ n \in (xhrs[x].rcvd + 1)..Len(xhrs[x].script)
    /\ Progress(x, n, FALSE)

\* xhr.onprogress of request x once more with the text it had: responseText
\* is cumulative, so an event with nothing new carries the same text.
OnProgressAgain(x) == Progress(x, xhrs[x].rcvd, TRUE)

\* xhr.onload of request x: the response ended with the text delivered so
\* far (every delivery is handled by onprogress before load). The two
\* branches that reject run the catch of sendMessage.
OnLoad(x, status) ==
    LET r == xhrs[x] IN
    /\ r.live
    /\ xhrRef' = 0
    /\ xhrs' = [xhrs EXCEPT ![x].live = FALSE, ![x].ended = "load",
                            ![x].status = status]
    /\ IF status = 200
       THEN IF currentMessageRef # <<>>
            THEN /\ messages' = CompleteMessages(messages, r.messageId,
                                                 currentMessageRef)
                 /\ loading' = FALSE
            ELSE IF ~r.isProcessing
            THEN /\ messages' = CatchMessages(
                        ErrorMessages(messages, r.messageId, NO_RESPONSE), r.messageId)
                 /\ loading' = FALSE
            ELSE UNCHANGED <<messages, loading>>
       ELSE /\ messages' = CatchMessages(
                   ErrorMessages(messages, r.messageId, CONNECTION_ERROR), r.messageId)
            /\ loading' = FALSE
    /\ UNCHANGED <<app2, backend, input, authLoading, isAuthenticated, currentMessageRef, tokenRef,
                   sessionIdRef, tokenExpiryRef, storage, calls, now,
                   nSends, nAuths, nClears>>

\* An error handler without setLoading(false): not the code's. The property
\* of transport failures tells the two apart.
ErrorKeepsLoading(x) ==
    LET r == xhrs[x] IN
    /\ r.live
    /\ xhrRef' = 0
    /\ xhrs' = [xhrs EXCEPT ![x].live = FALSE, ![x].ended = "error"]
    /\ messages' = CatchMessages(
           ErrorMessages(messages, r.messageId, CONNECTION_ERROR), r.messageId)
    /\ loading' = loading
    /\ UNCHANGED <<app2, backend, input, authLoading, isAuthenticated, currentMessageRef, tokenRef,
                   sessionIdRef, tokenExpiryRef, storage, calls, now,
                   nSends, nAuths, nClears>>

\* xhr.onerror of request x, then the catch of sendMessage.
OnError(x) ==
    LET r == xhrs[x] IN
    /\ r.live
    /\ xhrRef' = 0
    /\ xhrs' = [xhrs EXCEPT ![x].live = FALSE, ![x].ended = "error"]
    /\ messages' = CatchMessages(
           ErrorMessages(messages, r.messageId, CONNECTION_ERROR), r.messageId)
    /\ loading' = FALSE
    /\ UNCHANGED <<app2, backend, input, authLoading, isAuthenticated, currentMessageRef, tokenRef,
                   sessionIdRef, tokenExpiryRef, storage, calls, now,
                   nSends, nAuths, nClears>>

\* stopStreaming, with xhr.onabort when a request is in flight.
StopStreaming ==
    /\ now' = Paced
    /\ xhrRef' = 0
    /\ xhrs' = OnAbortXhrs
    /\ loading' = FALSE
    /\ messages' = StopMessages(OnAbortMessages(messages))
    /\ UNCHANGED <<app2, backend, input, authLoading, isAuthenticated, currentMessageRef, tokenRef,
                   sessionIdRef, tokenExpiryRef, storage, calls, nSends, nAuths, nClears>>

\* ------------------------------------------------------------ clearSession
\* clearSession up to the wait for its three removeItem calls.
ClearSession ==
    /\ now' = Paced
    /\ isAuthenticated
    /\ nClears < MaxClears
    /\ nClears' = nClears + 1
    /\ xhrRef' = 0
    /\ xhrs' = OnAbortXhrs
    /\ messages' = OnAbortMessages(messages)
    /\ loading' = IF AbortFires THEN FALSE ELSE loading
    /\ calls' = Append(calls, Call("clear", "remove", 0, <<>>, NoGhost))
    /\ UNCHANGED <<app2, backend, input, authLoading, isAuthenticated, currentMessageRef, tokenRef,
                   sessionIdRef, tokenExpiryRef, storage, nSends,
                   nAuths>>

\* A session reset that leaves the log as it is: not the code's. The
\* property of the log tells the two apart.
ResetKeepsLog(i, removed) ==
    /\ calls[i].pc = "remove"
    /\ storage' = Removed(storage, removed)
    /\ IF removed = Slots
       THEN /\ nAuths < MaxAuths
            /\ tokenRef' = NULL
            /\ sessionIdRef' = NULL
            /\ tokenExpiryRef' = NoNumber
            /\ isAuthenticated' = FALSE
            /\ messages' = messages
            /\ calls' = [calls EXCEPT ![i].pc = "fetch", ![i].n = nAuths + 1]
            /\ nAuths' = nAuths + 1
       ELSE /\ calls' = RemoveAt(calls, i)
            /\ UNCHANGED <<tokenRef, sessionIdRef, tokenExpiryRef, isAuthenticated,
                           messages, nAuths>>
    /\ UNCHANGED <<app2, backend, input, loading, authLoading, xhrRef, currentMessageRef, xhrs,
                   now, nSends, nClears>>

\* clearSession after Promise.all of the removeItem calls: `removed` are the
\* removals that went through. All three: the refs and the log are reset
\* and authenticate() is called. Fewer: the catch logs the error.
RemoveDone(i, removed) ==
    /\ calls[i].pc = "remove"
    /\ storage' = Removed(storage, removed)
    /\ IF removed = Slots
       THEN /\ nAuths < MaxAuths
            /\ tokenRef' = NULL
            /\ sessionIdRef' = NULL
            /\ tokenExpiryRef' = NoNumber
            /\ isAuthenticated' = FALSE
            /\ messages' = <<WelcomeMessage>>
            /\ calls' = [calls EXCEPT ![i].pc = "fetch", ![i].n = nAuths + 1]
            /\ nAuths' = nAuths + 1
       ELSE /\ calls' = RemoveAt(calls, i)
            /\ UNCHANGED <<tokenRef, sessionIdRef, tokenExpiryRef, isAuthenticated,
                           messages, nAuths>>
    /\ UNCHANGED <<app2, backend, input, loading, authLoading, xhrRef, currentMessageRef, xhrs,
                   now, nSends, nClears>>

\* ---------------------------------------------------------------- the clock
Tick ==
    /\ now < Now0 + MaxTicks * TickSeconds * 1000
    /\ now' = now + TickSeconds * 1000
    /\ UNCHANGED <<app2, backend, messages, input, loading, authLoading, isAuthenticated, xhrRef,
                   currentMessageRef, tokenRef, sessionIdRef, tokenExpiryRef,
                   storage, xhrs, calls, nSends, nAuths, nClears>>

\* The writes or removals of a Promise.all that went through when it
\* rejects: none, or the first alone.
PartialSlots == {{}, {"token"}}
Outcomes == PartialSlots \cup {Slots}

\* The engine with its authentication: startup, refresh in sendMessage,
\* retry, the turn and cancellation, against a terse backend.
Next ==
    \/ \E i \in DOMAIN calls : InitLoaded(i)
    \/ \E i \in DOMAIN calls : InitStorageError(i)
    \/ \E i \in DOMAIN calls : \E outcome \in AuthOutcomes : AuthResponse(i, outcome)
    \/ \E i \in DOMAIN calls : \E written \in Outcomes : StoreDone(i, written)
    \/ RetryConnection
    \/ \E text \in Inputs : SetInput(text)
    \/ SendMessage
    \/ \E x \in DOMAIN xhrs : \E n \in 1..Len(xhrs[x].script) : OnProgress(x, n)
    \/ \E x \in DOMAIN xhrs : \E status \in Statuses : OnLoad(x, status)
    \/ \E x \in DOMAIN xhrs : OnError(x)
    \/ StopStreaming
    \/ Tick

Spec == Init /\ [][Next]_vars

\* The turn alone, against the full backend: the app was started with a
\* stored credential that outlives the run (initializeAuth adopted it), so
\* that no refresh is ever due.
InitStream ==
    /\ messages = <<WelcomeMessage>>
    /\ input = <<>>
    /\ loading = FALSE
    /\ authLoading = FALSE
    /\ isAuthenticated = TRUE
    /\ xhrRef = 0
    /\ currentMessageRef = <<>>
    /\ tokenRef = StoredCred(StreamLife).token
    /\ sessionIdRef = StoredCred(StreamLife).session
    /\ tokenExpiryRef = StoredCred(StreamLife).expiry
    /\ storage = StoredCred(StreamLife)
    /\ xhrs = <<>>
    /\ calls = <<>>
    /\ backend = Scripts
    /\ NoApp2
    /\ now = Now0
    /\ nSends = 0
    /\ nAuths = 0
    /\ nClears = 0

NextStream ==
    \/ \E text \in StreamInputs : SetInput(text)
    \/ SendMessage
    \/ \E x \in DOMAIN xhrs : \E n \in 1..Len(xhrs[x].script) : OnProgress(x, n)
    \/ \E x \in DOMAIN xhrs : \E status \in Statuses : OnLoad(x, status)
    \/ \E x \in DOMAIN xhrs : OnError(x)
    \/ StopStreaming
    \/ Tick

SpecStream == InitStream /\ [][NextStream]_vars

\* The engine with session reset.
NextSession ==
    \/ Next
    \/ ClearSession
    \/ \E i \in DOMAIN calls : \E removed \in Outcomes : RemoveDone(i, removed)

SpecSession == Init /\ [][NextSession]_vars

\* Session reset and the turn, with no startup and a clock that stands: the
\* app adopted a stored credential that is valid throughout, so every call
\* of /auth is that of a reset or of Retry Connection.
InitReset ==
    /\ messages = <<WelcomeMessage>>
    /\ input = <<>>
    /\ loading = FALSE
    /\ authLoading = FALSE
    /\ isAuthenticated = TRUE
    /\ xhrRef = 0
    /\ currentMessageRef = <<>>
    /\ tokenRef = StoredCred(LongLife).token
    /\ sessionIdRef = StoredCred(LongLife).session
    /\ tokenExpiryRef = StoredCred(LongLife).expiry
    /\ storage = StoredCred(LongLife)
    /\ xhrs = <<>>
    /\ calls = <<>>
    /\ backend = ShortScripts
    /\ NoApp2
    /\ now = Now0
    /\ nSends = 0
    /\ nAuths = 0
    /\ nClears = 0

NextReset ==
    \/ \E i \in DOMAIN calls : \E outcome \in AuthOutcomes : AuthResponse(i, outcome)
    \/ \E i \in DOMAIN calls : \E written \in Outcomes : StoreDone(i, written)
    \/ RetryConnection
    \/ \E text \in Inputs : SetInput(text)
    \/ SendMessage
    \/ \E x \in DOMAIN xhrs : \E n \in 1..Len(xhrs[x].script) : OnProgress(x, n)
    \/ \E x \in DOMAIN xhrs : \E status \in Statuses : OnLoad(x, status)
    \/ \E x \in DOMAIN xhrs : OnError(x)
    \/ StopStreaming
    \/ ClearSession
    \/ \E i \in DOMAIN calls : \E removed \in Outcomes : RemoveDone(i, removed)

SpecReset == InitReset /\ [][NextReset]_vars

\* Startup and authentication alone, over every content of the store.
InitStartup ==
    /\ messages = <<WelcomeMessage>>
    /\ input = <<>>
    /\ loading = FALSE
    /\ authLoading = TRUE
    /\ isAuthenticated = FALSE
    /\ xhrRef = 0
    /\ currentMessageRef = <<>>
    /\ tokenRef = NULL
    /\ sessionIdRef = NULL
    /\ tokenExpiryRef = NoNumber
    /\ storage \in StartupStores
    /\ xhrs = <<>>
    /\ calls = <<Call("init", "getItems", 0, <<>>, NoGhost)>>
    /\ backend = ShortScripts
    /\ NoApp2
    /\ now = Now0
    /\ nSends = 0
    /\ nAuths = 0
    /\ nClears = 0

NextStartup ==
    \/ \E i \in DOMAIN calls : InitLoaded(i)
    \/ \E i \in DOMAIN calls : InitStorageError(i)
    \/ \E i \in DOMAIN calls : \E outcome \in AuthOutcomes : AuthResponse(i, outcome)
    \/ \E i \in DOMAIN calls : \E written \in Outcomes : StoreDone(i, written)
    \/ RetryConnection
    \/ Tick

SpecStartup == InitStartup /\ [][NextStartup]_vars

\* The turn against a backend that departs from the protocol.
InitOdd ==
    /\ messages = <<WelcomeMessage>>
    /\ input = <<>>
    /\ loading = FALSE
    /\ authLoading = FALSE
    /\ isAuthenticated = TRUE
    /\ xhrRef = 0
    /\ currentMessageRef = <<>>
    /\ tokenRef = StoredCred(StreamLife).token
    /\ sessionIdRef = StoredCred(StreamLife).session
    /\ tokenExpiryRef = StoredCred(StreamLife).expiry
    /\ storage = StoredCred(StreamLife)
    /\ xhrs = <<>>
    /\ calls = <<>>
    /\ backend = OddScripts
    /\ NoApp2
    /\ now = Now0
    /\ nSends = 0
    /\ nAuths = 0
    /\ nClears = 0

SpecOdd == InitOdd /\ [][NextStream]_vars

\* The turn with progress events that bring nothing new.
NextRepeat ==
    \/ NextStream
    \/ \E x \in DOMAIN xhrs : OnProgressAgain(x)

SpecRepeat == InitStream /\ [][NextRepeat]_vars

\* ------------------------------------------------- the turn to its end
\* The turn under a transport that keeps its word: a request in flight ends
\* with a load or an error event (or with the abort the program calls, which
\* is part of the step that calls it). Nothing is assumed of the user.
NextTurn ==
    \/ \E text \in Inputs : SetInput(text)
    \/ SendMessage
    \/ \E x \in DOMAIN xhrs : \E n \in 1..Len(xhrs[x].script) : OnProgress(x, n)
    \/ \E x \in DOMAIN xhrs : \E status \in Statuses : OnLoad(x, status)
    \/ \E x \in DOMAIN xhrs : OnError(x)
    \/ StopStreaming

TransportEnds ==
    \E x \in DOMAIN xhrs : (\E status \in Statuses : OnLoad(x, status)) \/ OnError(x)

SpecTurn == InitReset /\ [][NextTurn]_vars /\ WF_vars(TransportEnds)

\* ------------------------------------------- the variant unnamed/part_000
\* The variant keeps no xhrRef: sendMessage and stopStreaming abort nothing,
\* the request has no onabort handler, and xhrRef stays null here. Its
\* xhr.onprogress, xhr.onload and xhr.onerror are those of App.tsx without
\* the writes to xhrRef; in the [DONE] branch xhr.abort() runs no handler
\* and the branch writes the same content, so Progress, OnLoad and OnError
\* stand for them.

\* sendMessage of the variant from `const userMessage` on.
Part000_OpenTurn(t, text, ghost, script) ==
    LET turn == Len(xhrs) + 1
        messageId == AssistantId(t)
        msgs2 == Append(messages, UserMessage(t, text, turn))
        msgs3 == Append(msgs2, Placeholder(t, turn))
        canOpen == tokenRef' # NULL /\ sessionIdRef' # NULL
    IN  /\ input' = <<>>
        /\ currentMessageRef' = <<>>
        /\ IF canOpen
           THEN /\ messages' = msgs3
                /\ loading' = TRUE
                /\ xhrRef' = 0
                /\ xhrs' = Append(Retired(xhrs),
                       NewXhr(messageId, TRUE, script, tokenRef', sessionIdRef',
                              tokenExpiryRef', t, ghost))
           ELSE \* startSSEStream throws: its catch, then the catch of sendMessage
                /\ messages' = CatchMessages(
                       ErrorMessages(msgs3, messageId, PROCESSING_ERROR), messageId)
                /\ loading' = FALSE
                /\ xhrRef' = 0
                /\ xhrs' = Append(Retired(xhrs),
                       NewXhr(messageId, FALSE, <<>>, tokenRef', sessionIdRef',
                              tokenExpiryRef', t, ghost))

\* sendMessage of the variant. The variant is run with a credential that
\* is valid beyond the margin throughout, so checkTokenExpiry returns at once.
Part000_SendMessage ==
    /\ Accepts
    /\ nSends < MaxSends
    /\ ~NeedsRefresh(tokenExpiryRef, Paced)
    /\ nSends' = nSends + 1
    /\ now' = Paced
    /\ LET t == Paced
           ghost == [heldToken |-> tokenRef, heldSession |-> sessionIdRef,
                     heldExpiry |-> tokenExpiryRef, acceptedAt |-> t,
                     refreshed |-> FALSE, refreshFailed |-> FALSE]
       IN /\ UNCHANGED <<tokenRef, sessionIdRef, tokenExpiryRef, calls, nAuths>>
          /\ \E script \in backend : Part000_OpenTurn(t, Trim(input), ghost, script)
    /\ UNCHANGED <<app2, authLoading, isAuthenticated, storage, backend, nClears>>

\* prev.map(msg => msg.isStreaming ? {...msg, isStreaming: false} : msg)
Part000_StopMessages(msgs) ==
    [i \in DOMAIN msgs |->
        IF msgs[i].isStreaming THEN [msgs[i] EXCEPT !.isStreaming = FALSE]
        ELSE msgs[i]]

\* stopStreaming of the variant: eventSourceRef is never set, so nothing is
\* closed; the requests in flight stay in flight.
Part000_StopStreaming ==
    /\ now' = Paced
    /\ loading' = FALSE
    /\ messages' = Part000_StopMessages(messages)
    /\ xhrs' = [x \in DOMAIN xhrs |->
                   IF xhrs[x].live THEN [xhrs[x] EXCEPT !.stopped = TRUE] ELSE xhrs[x]]
    /\ UNCHANGED <<app2, backend, input, authLoading, isAuthenticated, xhrRef, currentMessageRef,
                   tokenRef, sessionIdRef, tokenExpiryRef, storage, calls, nSends,
                   nAuths, nClears>>

NextPart000 ==
    \/ \E text \in Inputs : SetInput(text)
    \/ Part000_SendMessage
    \/ \E x \in DOMAIN xhrs : \E n \in 1..Len(xhrs[x].script) : OnProgress(x, n)
    \/ \E x \in DOMAIN xhrs : \E status \in Statuses : OnLoad(x, status)
    \/ \E x \in DOMAIN xhrs : OnError(x)
    \/ Part000_StopStreaming

\* The variant starts as the reset specification does: a stored credential
\* was adopted, the backend is terse.
SpecPart000 == InitReset /\ [][NextPart000]_vars

\* ------------------------------------ the polling variant (app2.txt, first App)
\* sendMessage starts a session with POST /chat/stream and pollForUpdates
\* asks GET /chat/poll/<session> every 100 ms for the text so far. A turn is
\* one call of sendMessage: messageId (its assistantMessageId), pc (what it
\* awaits: "start" the first fetch, "poll" a poll, "sleep" the timer, "over"
\* when its finally block ran), signal (the AbortController whose signal the
\* pending fetch was given: the number of the turn that created it, 0 for
\* none), aborted (abort() was called on the controller this turn created),
\* lastLength, and served (the length of the text the session has shown).
\* The variant knows no credential: the state of the other programs stands.
app1 ==
    <<authLoading, isAuthenticated, xhrRef, currentMessageRef, tokenRef,
      sessionIdRef, tokenExpiryRef, storage, xhrs, calls, backend, nAuths, nClears>>

\* The text of the session, in the pieces the backend produces it in.
App2_Reply == <<"Hi", " there">>

APP2_WELCOME == "Hi! How can I help you with your banking today?"
APP2_ERROR == "Sorry, I encountered an error"

App2_Welcome ==
    [id |-> <<1, "">>, role |-> "assistant", content |-> <<APP2_WELCOME>>,
     isStreaming |-> FALSE, turn |-> 0]

App2_UserMessage(t, text, turn) ==
    [id |-> UserId(t), role |-> "user", content |-> text,
     isStreaming |-> FALSE, turn |-> turn]

App2_Placeholder(t, turn) ==
    [id |-> AssistantId(t), role |-> "assistant", content |-> <<>>,
     isStreaming |-> TRUE, turn |-> turn]

\* What fetch answers with: a response, a status that is not ok, no answer.
App2_Outcomes == {"ok", "http_error", "net_error"}

\* abortControllerRef.current.abort(), when the ref is set.
App2_Abort(ts, ref) == IF ref # 0 THEN [ts EXCEPT ![ref].aborted = TRUE] ELSE ts

\* The signal a pending fetch of turn k was given is aborted.
App2_Aborted(k) == turns[k].signal # 0 /\ turns[turns[k].signal].aborted

\* The catch of sendMessage for an error that is no AbortError.
App2_ErrorMessages(msgs, messageId) ==
    [i \in DOMAIN msgs |->
        IF msgs[i].id = messageId
        THEN [msgs[i] EXCEPT !.content = <<APP2_ERROR>>, !.isStreaming = FALSE]
        ELSE msgs[i]]

\* The two updates of pollForUpdates: the text so far when it grew, and
\* isStreaming false when the session is done.
App2_PollMessages(msgs, messageId, content, grew, done) ==
    [i \in DOMAIN msgs |->
        IF msgs[i].id = messageId
        THEN [msgs[i] EXCEPT
                 !.content = IF grew THEN content ELSE @,
                 !.isStreaming = IF done THEN FALSE ELSE @]
        ELSE msgs[i]]

\* The finally block of sendMessage, at the end of turn k.
App2_Finally(k, ts) ==
    /\ turns' = [ts EXCEPT ![k].pc = "over"]
    /\ loading' = FALSE
    /\ streamingRef' = FALSE
    /\ currentStreamingIdRef' = NULL
    /\ abortControllerRef' = 0

\* The head of the loop of pollForUpdates: the next poll, with the signal of
\* the controller the ref holds now, or the end of the loop and the finally
\* block of sendMessage.
App2_Loop(k, ts) ==
    IF streamingRef /\ currentStreamingIdRef = ts[k].messageId
    THEN /\ turns' = [ts EXCEPT ![k].pc = "poll", ![k].signal = abortControllerRef]
         /\ UNCHANGED <<loading, streamingRef, currentStreamingIdRef,
                        abortControllerRef>>
    ELSE App2_Finally(k, ts)

\* No fetch is pending on an aborted signal. A fetch rejects as soon as its
\* signal is aborted and the rejection is handled at once, before the next
\* event of the user; the 100 ms timer is not held up by an abort.
App2_Settled ==
    \A k \in DOMAIN turns : turns[k].pc \in {"start", "poll"} => ~App2_Aborted(k)

InitApp2 ==
    /\ messages = <<App2_Welcome>>
    /\ input = <<>>
    /\ loading = FALSE
    /\ authLoading = FALSE
    /\ isAuthenticated = FALSE
    /\ xhrRef = 0
    /\ currentMessageRef = <<>>
    /\ tokenRef = NULL
    /\ sessionIdRef = NULL
    /\ tokenExpiryRef = NoNumber
    /\ storage = NoStore
    /\ xhrs = <<>>
    /\ calls = <<>>
    /\ backend = {}
    /\ now = Now0
    /\ nSends = 0
    /\ nAuths = 0
    /\ nClears = 0
    /\ NoApp2

\* onChangeText of the text input, which is editable while not loading.
App2_SetInput(text) ==
    /\ App2_Settled
    /\ ~loading
    /\ text # input
    /\ input' = text
    /\ now' = Paced
    /\ UNCHANGED <<app1, app2, messages, loading, nSends>>

\* sendMessage up to its first await.
App2_SendMessage ==
    /\ App2_Settled
    /\ Trim(input) # <<>>
    /\ ~loading
    /\ nSends < MaxSends
    /\ nSends' = nSends + 1
    /\ now' = Paced
    /\ LET t == Paced
           k == Len(turns) + 1
       IN /\ messages' = Append(Append(messages, App2_UserMessage(t, input, k)),
                                App2_Placeholder(t, k))
          /\ currentStreamingIdRef' = AssistantId(t)
          /\ abortControllerRef' = k
          /\ turns' = Append(App2_Abort(turns, abortControllerRef),
                 [messageId |-> AssistantId(t), pc |-> "start", signal |-> k,
                  aborted |-> FALSE, lastLength |-> 0, served |-> 0])
    /\ input' = <<>>
    /\ loading' = TRUE
    /\ streamingRef' = TRUE
    /\ UNCHANGED app1

\* sendMessage of turn k after the fetch of /chat/stream: an AbortError
\* when its signal is aborted (the catch returns), the catch for another
\* error, or pollForUpdates.
App2_StartResponse(k, outcome) ==
    /\ turns[k].pc = "start"
    /\ IF App2_Aborted(k)
       THEN /\ outcome = "net_error"
            /\ UNCHANGED messages
            /\ App2_Finally(k, turns)
       ELSE IF outcome # "ok"
       THEN /\ messages' = App2_ErrorMessages(messages, turns[k].messageId)
            /\ App2_Finally(k, turns)
       ELSE /\ UNCHANGED messages
            /\ App2_Loop(k, turns)
    /\ UNCHANGED <<app1, input, now, nSends>>

\* pollForUpdates of turn k after a poll: the session shows `c` pieces of
\* its text and says whether it is done.
App2_PollResponse(k, outcome, c, done) ==
    /\ turns[k].pc = "poll"
    /\ IF App2_Aborted(k)
       THEN /\ outcome = "net_error" /\ c = turns[k].served /\ ~done
            /\ UNCHANGED messages
            /\ App2_Finally(k, turns)
       ELSE IF outcome # "ok"
       THEN /\ c = turns[k].served /\ ~done
            /\ messages' = App2_ErrorMessages(messages, turns[k].messageId)
            /\ App2_Finally(k, turns)
       ELSE LET content == SubSeq(App2_Reply, 1, c)
                grew == content # <<>> /\ c > turns[k].lastLength
                ts == [turns EXCEPT ![k].served = c,
                                    ![k].lastLength = IF grew THEN c ELSE @]
            IN  /\ c >= turns[k].served
                /\ done => c = Len(App2_Reply)
                /\ messages' = App2_PollMessages(messages, turns[k].messageId,
                                                 content, grew, done)
                /\ IF done
                   THEN App2_Finally(k, ts)
                   ELSE /\ turns' = [ts EXCEPT ![k].pc = "sleep"]
                        /\ UNCHANGED <<loading, streamingRef,
                                       currentStreamingIdRef, abortControllerRef>>
    /\ UNCHANGED <<app1, input, now, nSends>>

\* The 100 ms timer of turn k fires: the head of the loop.
App2_SleepDone(k) ==
    /\ turns[k].pc = "sleep"
    /\ App2_Loop(k, turns)
    /\ UNCHANGED <<app1, messages, input, now, nSends>>

\* stopStreaming: the Stop button, which is shown while loading.
App2_StopStreaming ==
    /\ App2_Settled
    /\ loading
    /\ now' = Paced
    /\ turns' = App2_Abort(turns, abortControllerRef)
    /\ streamingRef' = FALSE
    /\ currentStreamingIdRef' = NULL
    /\ loading' = FALSE
    /\ messages' = Part000_StopMessages(messages)
    /\ UNCHANGED <<app1, input, abortControllerRef, nSends>>

NextApp2 ==
    \/ \E text \in Inputs : App2_SetInput(text)
    \/ App2_SendMessage
    \/ \E k \in DOMAIN turns : \E outcome \in App2_Outcomes :
           App2_StartResponse(k, outcome)
    \/ \E k \in DOMAIN turns : \E outcome \in App2_Outcomes :
       \E c \in 0..Len(App2_Reply) : \E done \in BOOLEAN :
           App2_PollResponse(k, outcome, c, done)
    \/ \E k \in DOMAIN turns : App2_SleepDone(k)
    \/ App2_StopStreaming

SpecApp2 == InitApp2 /\ [][NextApp2]_vars

\* ------------------------------------------------------------ properties
Streaming == {i \in DOMAIN messages : messages[i].isStreaming}

\* The placeholders of turn x in the log (one, until the log is reset).
PlaceholdersOf(x) ==
    {i \in DOMAIN messages : messages[i].turn = x /\ messages[i].role = "assistant"}

\* The first message of the log with the id of message i is message i.
FirstWithId(i) == \A j \in DOMAIN messages : messages[j].id = messages[i].id => i <= j

\* The response text of request x as far as it was delivered.
Received(x) == SubSeq(xhrs[x].script, 1, xhrs[x].rcvd)

\* The fragments of the response frames of a text, in order of arrival.
RECURSIVE FragmentsFrom(_, _)
FragmentsFrom(s, i) ==
    IF i > Len(s) THEN <<>>
    ELSE IF \E f \in Fragments : s[i] = ROpen(f)
        THEN <<CHOOSE f \in Fragments : s[i] = ROpen(f)>> \o FragmentsFrom(s, i + 1)
    ELSE FragmentsFrom(s, i + 1)

\* C1: in every state at most one message of the log has isStreaming = true.
C1_AtMostOneStreaming == Cardinality(Streaming) <= 1

\* C2: once a frame `data: Error:<text>` was delivered to a request (whole:
\* every frame handled so far had its newline), the placeholder of its turn
\* is errored (not streaming, error set), its content is the error text
\* Error:<text>, and loading is false.
C2_ErrorFrameEndsTurn ==
    \A x \in DOMAIN xhrs :
        xhrs[x].errData # <<>> /\ ~xhrs[x].early =>
            /\ ~loading
            /\ \A i \in PlaceholdersOf(x) :
                   /\ ~messages[i].isStreaming
                   /\ messages[i].error
                   /\ messages[i].content = xhrs[x].errData

\* A transport error ended request x (the error event, or a completion
\* with a status other than 200) after a delta was applied and with no
\* Error: frame delivered ([DONE] ends the request, so none came before).
TransportErrorAfterDelta(x) ==
    /\ \/ xhrs[x].ended = "error"
       \/ xhrs[x].ended = "load" /\ xhrs[x].status # 200
    /\ xhrs[x].acc # <<>>
    /\ xhrs[x].errData = <<>>

\* s is a prefix of t.
IsPrefix(s, t) == Len(s) <= Len(t) /\ SubSeq(t, 1, Len(s)) = s

C4_SplitEquivalence ==
    \A x \in DOMAIN xhrs :
        xhrs[x].acc = Feed(<<>>, FALSE, Received(x)).cur

\* C5: no frame is handled from the part of the received text that has no
\* newline after it yet.
C5_NoEarlyFrame == \A x \in DOMAIN xhrs : ~xhrs[x].early

\* C6: a turn whose credential refresh failed opens no chat request and
\* ends with its placeholder errored; and every chat request is sent with a
\* credential whose expiry is later than the clock plus the margin.
C6_NoChatWithoutValidCredential ==
    \A x \in DOMAIN xhrs :
        /\ xhrs[x].refreshFailed =>
               /\ ~xhrs[x].opened
               /\ \A i \in PlaceholdersOf(x) :
                      messages[i].error /\ ~messages[i].isStreaming
        /\ xhrs[x].opened =>
               /\ xhrs[x].openExpiry # NoNumber
               /\ xhrs[x].openExpiry * 1000 > xhrs[x].openedAt + REFRESH_MARGIN * 1000

\* C7: stopStreaming while a turn is active (loading, its request in
\* flight) aborts the request and leaves the placeholder of the turn not
\* streaming, not errored, with the text streamed so far as its content
\* ('Request stopped by user.' when there is none), and loading false.
C7_CancelActiveTurn ==
    [][(loading /\ AbortFires /\ StopStreaming) =>
          LET x == xhrRef IN
          /\ ~xhrs'[x].live
          /\ xhrs'[x].ended = "abort"
          /\ ~loading'
          /\ PlaceholdersOf(x) # {}
          /\ \A i \in PlaceholdersOf(x) :
                 /\ ~messages'[i].isStreaming
                 /\ ~messages'[i].error
                 /\ messages'[i].content =
                        IF xhrs[x].acc # <<>> THEN xhrs[x].acc ELSE STOPPED]_vars

\* A turn that was cancelled after text was streamed, and kept the text.
C7_Witness ==
    \E x \in DOMAIN xhrs :
        /\ xhrs[x].ended = "abort"
        /\ xhrs[x].acc # <<>>
        /\ ~loading
        /\ \E i \in PlaceholdersOf(x) :
               /\ messages[i].content = xhrs[x].acc
               /\ ~messages[i].isStreaming
               /\ ~messages[i].error

\* C8: stopStreaming with no turn active (loading false) leaves the message
\* log as it is, and a second stopStreaming after any stopStreaming changes
\* nothing more.
C8_CancelIdle ==
    [][StopStreaming =>
          /\ ~loading => messages' = messages
          /\ StopMessages(messages') = messages'
          /\ ~loading'
          /\ xhrRef' = 0]_vars

\* C9: when [DONE] has ended a request, the content of the placeholder of
\* its turn is the fragments of the response frames received, in order of
\* arrival, and the placeholder is complete: not streaming, not errored,
\* loading false.
C9_DoneGivesConcatenation ==
    \A x \in DOMAIN xhrs :
        xhrs[x].opened /\ xhrs[x].ended = "done" =>
            /\ ~loading
            /\ \A i \in PlaceholdersOf(x) :
                   /\ messages[i].content = FragmentsFrom(Received(x), 1)
                   /\ ~messages[i].isStreaming
                   /\ ~messages[i].error

\* C10: a chat request opened by a sendMessage that was accepted while the
\* held credential expired within the margin was preceded by a call of
\* /auth made by that sendMessage.
C10_RefreshBeforeChat ==
    \A x \in DOMAIN xhrs :
        /\ xhrs[x].opened
        /\ xhrs[x].heldExpiry # NoNumber
        /\ xhrs[x].heldExpiry * 1000 <= xhrs[x].acceptedAt + REFRESH_MARGIN * 1000
        => xhrs[x].refreshed

\* The text is empty or whitespace alone.
Blank(text) == \A k \in DOMAIN text : text[k] = " "

\* The step is a sendMessage that went past its guards.
SendAccepted == nSends' # nSends

\* C11: a sendMessage that is accepted while the held expiry is later than
\* the clock plus the margin makes no call of /auth and leaves the three
\* refs and the three persisted slots as they are.
C11_ValidCredentialUntouched ==
    [][(/\ SendAccepted
        /\ tokenExpiryRef # NoNumber
        /\ tokenExpiryRef * 1000 > now' + REFRESH_MARGIN * 1000) =>
          /\ nAuths' = nAuths
          /\ calls' = calls
          /\ tokenRef' = tokenRef
          /\ sessionIdRef' = sessionIdRef
          /\ tokenExpiryRef' = tokenExpiryRef
          /\ storage' = storage]_vars

\* A chat request that was opened with a valid credential and no refresh.
C11_Witness ==
    \E x \in DOMAIN xhrs :
        /\ xhrs[x].opened
        /\ xhrs[x].heldExpiry * 1000 > xhrs[x].acceptedAt + REFRESH_MARGIN * 1000
        /\ ~xhrs[x].refreshed
        /\ xhrs[x].openExpiry = xhrs[x].heldExpiry

\* C12: a sendMessage goes past its guards only with a text that is not
\* blank, with loading false, authenticated and with a token and a session
\* id; otherwise it returns and nothing changes.
C12_RejectedSendIsNoOp ==
    [][SendAccepted =>
          /\ ~Blank(input)
          /\ ~loading
          /\ isAuthenticated
          /\ tokenRef # NULL
          /\ sessionIdRef # NULL]_vars

\* A text of whitespace alone is in the input while nothing else stands in
\* the way of sendMessage, and an earlier text was sent.
C12_Witness ==
    /\ input # <<>>
    /\ Blank(input)
    /\ ~loading
    /\ isAuthenticated
    /\ nSends = 1

\* The sendMessage calls that wait for the refresh of the credential.
AwaitingRefresh == {i \in DOMAIN calls : calls[i].kind = "send"}

\* C13: no sendMessage is accepted while an earlier one waits for the
\* refresh of the credential.
C13_NoSendWhileAuthenticating ==
    [][SendAccepted => AwaitingRefresh = {}]_vars

\* The chat requests in flight.
InFlight == {x \in DOMAIN xhrs : xhrs[x].live}

\* C14: at most one chat request is in flight.
C14_OneRequestInFlight == Cardinality(InFlight) <= 1

\* A request in flight whose predecessor was aborted, not completed.
C14_Witness ==
    \E x, y \in DOMAIN xhrs :
        x < y /\ xhrs[x].ended = "abort" /\ xhrs[y].live /\ loading

\* The texts the handlers write that are no text of the backend.
FixedTexts ==
    {<<>>, STOPPED, NO_RESPONSE, CONNECTION_ERROR, PROCESSING_ERROR, SEND_FAILED}

\* The placeholders of the log before the step that are still in the log.
KeptPlaceholders ==
    {i \in DOMAIN messages :
        /\ i \in DOMAIN messages'
        /\ messages[i].role = "assistant"
        /\ messages[i].turn >= 1}

\* C15: when a step writes streamed text into an assistant message, the
\* text is the deltas of the request of the message's own turn.
C15_OwnDeltasOnly ==
    [][\A i \in KeptPlaceholders :
          (/\ messages'[i].content # messages[i].content
           /\ messages'[i].content \notin FixedTexts) =>
              messages'[i].content = xhrs'[messages[i].turn].acc]_vars

\* C16: an assistant message that is not streaming keeps its content, its
\* isStreaming flag and its error flag in every later step.
C16_TerminalIsFrozen ==
    [][\A i \in KeptPlaceholders :
          ~messages[i].isStreaming =>
              /\ messages'[i].content = messages[i].content
              /\ messages'[i].isStreaming = messages[i].isStreaming
              /\ messages'[i].error = messages[i].error]_vars

\* The ids of a log, in order.
Ids(msgs) == [i \in DOMAIN msgs |-> msgs[i].id]

\* The step is the end of a clearSession whose three removals went through.
ResetDone == \E i \in DOMAIN calls : RemoveDone(i, Slots)

EndedEmpty(x) ==
    /\ xhrs[x].opened
    /\ xhrs[x].ended \in {"load", "error"}
    /\ xhrs[x].acc = <<>>
    /\ ~xhrs[x].isProcessing
    /\ xhrs[x].errData = <<>>

\* C18: when a request has ended with no delta received and no status
\* marker seen, the placeholder of its turn is errored (not streaming, error
\* set) and its content is 'No response received. Please try again.'.
C18_NoResponseExplained ==
    \A x \in DOMAIN xhrs :
        EndedEmpty(x) =>
            \A i \in PlaceholdersOf(x) :
                /\ ~messages[i].isStreaming
                /\ messages[i].error
                /\ messages[i].content = NO_RESPONSE

\* The step is a transport failure of request x: its error event, or its
\* completion with a status other than 200.
TransportFails(x) ==
    /\ xhrs[x].live
    /\ x \in DOMAIN xhrs'
    /\ \/ xhrs'[x].ended = "error"
       \/ xhrs'[x].ended = "load" /\ xhrs'[x].status # 200

\* C19: a step in which the chat request of a turn fails in transport (error
\* event, or completion with a status other than 200) leaves the placeholder
\* of the turn errored (not streaming, error set) and loading false, and
\* opens no request: no chat request is added and /auth is not called.
C19_TransportFailureSurfaced ==
    [][\A x \in DOMAIN xhrs :
           TransportFails(x) =>
               /\ \A i \in DOMAIN messages' :
                      messages'[i].role = "assistant" /\ messages'[i].turn = x =>
                          ~messages'[i].isStreaming /\ messages'[i].error
               /\ ~loading'
               /\ Len(xhrs') = Len(xhrs)
               /\ \A y \in DOMAIN xhrs : y # x => xhrs'[y] = xhrs[y]
               /\ xhrRef' = 0
               /\ calls' = calls
               /\ nAuths' = nAuths]_vars

\* A turn whose request failed on the error event while it was streaming,
\* with a status marker seen: the placeholder is errored and loading is false.
C19_Witness ==
    \E x \in DOMAIN xhrs :
        /\ xhrs[x].opened
        /\ xhrs[x].ended = "error"
        /\ xhrs[x].isProcessing
        /\ ~loading
        /\ \E i \in PlaceholdersOf(x) : messages[i].error /\ ~messages[i].isStreaming

\* The step is the first progress event of request x that repeats the
\* response text of the event before.
Repeats(x) ==
    /\ xhrs[x].live
    /\ x \in DOMAIN xhrs'
    /\ ~xhrs[x].again
    /\ xhrs'[x].again

\* C20: a progress event with the same cumulative response text as the one
\* before emits nothing again: the log, the streamed text, loading and what
\* the request has decoded (delta text, status marker, Error: text, its end)
\* are as before the event.
C20_RepeatedProgressEmitsNothing ==
    [][\A x \in DOMAIN xhrs :
           Repeats(x) =>
               /\ messages' = messages
               /\ currentMessageRef' = currentMessageRef
               /\ loading' = loading
               /\ xhrRef' = xhrRef
               /\ xhrs' = [xhrs EXCEPT ![x].again = TRUE]]_vars

\* A request in flight that has streamed a delta into its placeholder and
\* then got a repeated progress event.
C20_Witness ==
    \E x \in DOMAIN xhrs :
        /\ xhrs[x].live
        /\ xhrs[x].again
        /\ xhrs[x].acc # <<>>
        /\ \E i \in PlaceholdersOf(x) :
               messages[i].isStreaming /\ messages[i].content = xhrs[x].acc

\* The step is the end of a save of authenticate in which a setItem call
\* failed: Promise.all rejected.
SaveFails == \E i \in DOMAIN calls : \E written \in PartialSlots : StoreDone(i, written)

\* C21: when a write of the save of a credential fails, no persisted slot
\* takes a value of the new credential: the three slots are as before.
C21_SaveAllOrNothing ==
    [][SaveFails => \A k \in Slots : storage'[k] = storage[k]]_vars

\* The three slots hold a token, a session id and an expiry that is a number.
StoreComplete ==
    /\ storage.token # NULL
    /\ storage.session # NULL
    /\ storage.expiry \notin {NoNumber, NaN}

\* C22: when initializeAuth has read the slots and the token, the session
\* id or the expiry is missing or the expiry is no number, the three refs
\* stay empty, isAuthenticated stays false and /auth is called; the refs
\* are set from the store only when it is complete.
C22_PartialStoreNotAdopted ==
    [][\A i \in DOMAIN calls :
           InitLoaded(i) =>
               /\ ~StoreComplete =>
                      /\ tokenRef' = NULL
                      /\ sessionIdRef' = NULL
                      /\ tokenExpiryRef' = NoNumber
                      /\ ~isAuthenticated'
                      /\ nAuths' = nAuths + 1
                      /\ \E j \in DOMAIN calls' :
                             calls'[j].kind = "init" /\ calls'[j].pc = "fetch"
               /\ tokenRef' # NULL =>
                      /\ StoreComplete
                      /\ tokenRef' = storage.token
                      /\ sessionIdRef' = storage.session
                      /\ tokenExpiryRef' = storage.expiry]_vars

\* Startup found a token and an expiry ahead but no session id, adopted
\* nothing and waits for /auth.
C22_Witness ==
    /\ storage.token # NULL
    /\ storage.session = NULL
    /\ storage.expiry * 1000 > now
    /\ tokenRef = NULL
    /\ \E j \in DOMAIN calls : calls[j].kind = "init" /\ calls[j].pc = "fetch"

\* The answers of /auth that are no credential: a status that is not 2xx,
\* or a body without token, session_id or expires_at.
RejectedOutcomes == {"http_error", "no_token", "no_session", "no_expiry"}

\* The step is authenticate receiving such an answer.
AuthRejected ==
    \E i \in DOMAIN calls : \E outcome \in RejectedOutcomes : AuthResponse(i, outcome)

\* C23: when /auth answers with a status that is not 2xx or with a body
\* that lacks token, session_id or expires_at, the held credential stays as
\* it was: the three refs, the three persisted slots and isAuthenticated
\* are unchanged.
C23_RejectedResponseChangesNothing ==
    [][AuthRejected =>
           /\ tokenRef' = tokenRef
           /\ sessionIdRef' = sessionIdRef
           /\ tokenExpiryRef' = tokenExpiryRef
           /\ storage' = storage
           /\ isAuthenticated' = isAuthenticated]_vars

\* The calls of authenticate that wait for the answer of /auth.
Fetching == {i \in DOMAIN calls : calls[i].pc = "fetch"}

\* The step is the failure of a call of authenticate: no answer, an answer
\* that is no credential, or a save that failed.
AuthFails ==
    \/ \E i \in DOMAIN calls : AuthResponse(i, "net_error")
    \/ AuthRejected
    \/ SaveFails

\* The step is initializeAuth reading the store at startup.
StartupReads == \E i \in DOMAIN calls : calls[i].kind = "init" /\ InitLoaded(i)

\* C24: a step in which a call of authenticate fails makes no call of /auth,
\* and every call of /auth is made by startup or by a step of the user
\* (Retry Connection, an accepted sendMessage, the end of clearSession), one
\* call a step.
C24_NoSilentRetry ==
    [][/\ AuthFails =>
              /\ nAuths' = nAuths
              /\ Cardinality({i \in DOMAIN calls' : calls'[i].pc = "fetch"})
                     <= Cardinality(Fetching)
       /\ nAuths' # nAuths =>
              /\ nAuths' = nAuths + 1
              /\ StartupReads \/ RetryConnection \/ SendAccepted \/ ResetDone]_vars

\* Startup called /auth once, the call failed, and the app waits for the
\* user with no call under way.
C24_Witness ==
    /\ nAuths = 1
    /\ calls = <<>>
    /\ ~authLoading
    /\ ~isAuthenticated
    /\ tokenRef = NULL

\* The text a step delivers to request x.
Delivered(x) == SubSeq(xhrs[x].script, xhrs[x].rcvd + 1, xhrs'[x].rcvd)

\* The step is a progress event of request x.
Delivers(x) ==
    /\ xhrs[x].live
    /\ x \in DOMAIN xhrs'
    /\ xhrs'[x].rcvd > xhrs[x].rcvd

\* A text of status frames alone, from the start of a line.
StatusFrames == {<<DATA, STATUS>>, <<DATA, STATUS, NL>>}

\* C25: a progress event that brings a status frame and nothing else leaves
\* the message log and the streamed text as they were; the request has
\* seen the marker.
C25_StatusFrameLeavesLog ==
    [][\A x \in DOMAIN xhrs :
           (/\ Delivers(x)
            /\ xhrs[x].buffer = xhrs[x].rcvd
            /\ xhrs[x].rcvd = 0 \/ xhrs[x].script[xhrs[x].rcvd] = NL
            /\ Delivered(x) \in StatusFrames) =>
               /\ messages' = messages
               /\ currentMessageRef' = currentMessageRef
               /\ xhrs'[x].isProcessing
               /\ xhrs'[x].acc = xhrs[x].acc]_vars

\* A request that has seen the status marker and nothing else: its
\* placeholder is streaming and empty.
C25_Witness ==
    \E x \in DOMAIN xhrs :
        /\ xhrs[x].live
        /\ xhrs[x].isProcessing
        /\ Received(x) \in StatusFrames
        /\ \E i \in PlaceholdersOf(x) :
               messages[i].isStreaming /\ messages[i].content = <<>>

\* Request x is in flight and has received whole lines, the first of them a
\* frame the handler does not know.
ReceivedOddLines(x) ==
    /\ xhrs[x].live
    /\ xhrs[x].rcvd >= 3
    /\ xhrs[x].script[2] = MALFORMED
    /\ xhrs[x].script[xhrs[x].rcvd] = NL

\* C26: while a request has received whole lines with frames the handler
\* does not know among them, its turn goes on (loading, the placeholder
\* streaming and not errored) and the content of the placeholder is the
\* concatenation of the fragments of every response frame received: the
\* unknown frames changed nothing and no frame after them was lost.
C26_UnknownFrameDropped ==
    \A x \in DOMAIN xhrs :
        ReceivedOddLines(x) =>
            /\ loading
            /\ xhrs[x].acc = FragmentsFrom(Received(x), 1)
            /\ \A i \in PlaceholdersOf(x) :
                   /\ messages[i].isStreaming
                   /\ ~messages[i].error
                   /\ messages[i].content = xhrs[x].acc

\* The place of the first [DONE] payload in a body; 0 when it has none.
DonePos(script) ==
    IF \E k \in DOMAIN script : script[k] = DONE
    THEN CHOOSE k \in DOMAIN script :
             script[k] = DONE /\ \A j \in 1..(k - 1) : script[j] # DONE
    ELSE 0

\* The fragments a body carries before its [DONE].
BeforeDone(script) == FragmentsFrom(SubSeq(script, 1, DonePos(script)), 1)

\* Request x of the log msgs and the requests xs has handled [DONE]: its
\* placeholder is complete and holds the text streamed up to [DONE], which
\* is made of fragments that came before it.
DoneHolds(x, msgs, xs) ==
    (xs[x].opened /\ xs[x].ended = "done") =>
        /\ ~xs[x].live
        /\ \A k \in DOMAIN xs[x].acc :
               \E j \in DOMAIN BeforeDone(xs[x].script) :
                   xs[x].acc[k] = BeforeDone(xs[x].script)[j]
        /\ \A i \in DOMAIN msgs :
               (msgs[i].role = "assistant" /\ msgs[i].turn = x) =>
                   /\ ~msgs[i].isStreaming
                   /\ ~msgs[i].error
                   /\ msgs[i].content = xs[x].acc

\* C27: once a request has handled [DONE], its placeholder is complete with
\* the text streamed before [DONE], no frame after [DONE] is applied, and
\* no later step changes the placeholder or delivers an event to the
\* request.
C27_DoneIsTerminal ==
    [][\A x \in DOMAIN xhrs :
           /\ DoneHolds(x, messages, xhrs)
           /\ x \in DOMAIN xhrs' => DoneHolds(x, messages', xhrs')
           /\ xhrs[x].ended = "done" =>
                  /\ xhrs'[x].ended = "done"
                  /\ xhrs'[x].rcvd <= xhrs[x].rcvd
                  /\ \A i \in PlaceholdersOf(x) :
                         i \in DOMAIN messages' /\ messages'[i] = messages[i]]_vars

\* A request received [DONE] and the frame after it in one delivery, and
\* its placeholder holds the text from before [DONE].
C27_Witness ==
    \E x \in DOMAIN xhrs :
        /\ xhrs[x].opened
        /\ xhrs[x].ended = "done"
        /\ xhrs[x].rcvd > DonePos(xhrs[x].script) + 1
        /\ \E i \in PlaceholdersOf(x) :
               ~messages[i].isStreaming /\ messages[i].content = <<"Hi">>

\* The deltas that a step decodes for request x, in the order decoded.
Decoded(x) == SubSeq(xhrs'[x].acc, Len(xhrs[x].acc) + 1, Len(xhrs'[x].acc))

\* The placeholders that are streaming before and after a step.
StillStreaming ==
    {i \in KeptPlaceholders : messages[i].isStreaming /\ messages'[i].isStreaming}

\* The requests in flight whose handlers write to message i: those opened
\* with its id.
Feeding(i) ==
    {y \in DOMAIN xhrs : xhrs[y].live /\ xhrs[y].messageId = messages[i].id}

\* C28: while a placeholder is streaming, a step that decodes deltas for the
\* request that writes to it appends them to its content, in the order
\* decoded; every other step leaves its content as it was.
C28_DeltasAppendInOrder ==
    [][/\ \A y \in DOMAIN xhrs :
              y \in DOMAIN xhrs' /\ xhrs'[y].opened => IsPrefix(xhrs[y].acc, xhrs'[y].acc)
       /\ \A i \in StillStreaming :
              IF \E y \in Feeding(i) : Decoded(y) # <<>>
              THEN \A y \in Feeding(i) :
                       messages'[i].content = messages[i].content \o Decoded(y)
              ELSE messages'[i].content = messages[i].content]_vars

\* A placeholder that is streaming with two deltas applied, from two
\* deliveries.
C28_Witness ==
    \E x \in DOMAIN xhrs :
        /\ xhrs[x].live
        /\ ~xhrs[x].early
        /\ xhrs[x].acc = <<"Hi", " there">>
        /\ \E i \in PlaceholdersOf(x) :
               messages[i].isStreaming /\ messages[i].content = xhrs[x].acc

\* The user messages of a log.
UserMessages(msgs) == {i \in DOMAIN msgs : msgs[i].role = "user"}

\* C29: a user message is never streaming and never errored, and no step
\* changes it: every user message of the log is the same message after
\* the step.
C29_UserMessageIsComplete ==
    [][/\ \A i \in UserMessages(messages) :
              /\ ~messages[i].isStreaming
              /\ ~messages[i].error
              /\ i \in DOMAIN messages'
              /\ messages'[i] = messages[i]
       /\ \A i \in UserMessages(messages') :
              ~messages'[i].isStreaming /\ ~messages'[i].error]_vars

\* A turn that failed in transport: the catch of sendMessage has marked the
\* placeholder, and the user message before it is as it was sent.
C29_Witness ==
    \E i \in UserMessages(messages) :
        /\ messages[i].content = <<"hi">>
        /\ i + 1 \in DOMAIN messages
        /\ messages[i + 1].role = "assistant"
        /\ messages[i + 1].id[1] = messages[i].id[1]
        /\ messages[i + 1].error
        /\ messages[i + 1].content = SEND_FAILED

\* The log msgs is the welcome message followed by pairs of a user message
\* and the assistant message of the same turn.
PairedLog(msgs) ==
    /\ Len(msgs) % 2 = 1
    /\ msgs[1].id = WelcomeMessage.id
    /\ \A k \in 1..((Len(msgs) - 1) \div 2) :
           /\ msgs[2 * k].role = "user"
           /\ msgs[2 * k + 1].role = "assistant"
           /\ msgs[2 * k].turn = k
           /\ msgs[2 * k + 1].turn = k

\* The step opens a turn.
OpensTurn == Len(xhrs') > Len(xhrs)

\* The text of the sendMessage that opens a turn in the step: the input of
\* the call accepted in this step, or the input kept by the call that waited
\* for /auth and is over with this step.
TurnTexts ==
    IF SendAccepted THEN {Trim(input)}
    ELSE {calls[i].text : i \in {j \in AwaitingRefresh : calls' = RemoveAt(calls, j)}}

\* C30: the step that opens the turn of an accepted sendMessage appends two
\* messages to the log: a user message with the trimmed input, then a
\* placeholder with empty content and isStreaming true; no other step
\* changes the length of the log, every accepted sendMessage has opened its
\* turn or waits for /auth, and the log is the welcome message followed by
\* (user, assistant) pairs.
C30_SendAppendsPair ==
    [][/\ PairedLog(messages)
       /\ PairedLog(messages')
       /\ Len(messages') # Len(messages) => OpensTurn
       /\ SendAccepted /\ calls' # calls =>
              calls'[Len(calls')].kind = "send" /\ calls'[Len(calls')].text = Trim(input)
       /\ Len(xhrs') + Cardinality({i \in DOMAIN calls' : calls'[i].kind = "send"})
              = nSends'
       /\ OpensTurn =>
              LET n == Len(messages)
                  u == messages'[n + 1]
                  a == messages'[n + 2]
              IN  /\ Len(xhrs') = Len(xhrs) + 1
                  /\ Len(messages') = n + 2
                  /\ IsPrefix(Ids(messages), Ids(messages'))
                  /\ u.role = "user"
                  /\ u.content \in TurnTexts
                  /\ u.content # <<>>
                  /\ u.content[1] # " " /\ u.content[Len(u.content)] # " "
                  /\ ~u.isStreaming /\ ~u.error
                  /\ a.role = "assistant"
                  /\ a.content = <<>>
                  /\ a.isStreaming
                  /\ ~a.error
                  /\ a.id = xhrs'[Len(xhrs')].messageId]_vars

\* Two turns were opened, the second after its sendMessage waited for
\* /auth: the log is the welcome message and two pairs, the last
\* placeholder empty and streaming.
C30_Witness ==
    /\ Len(messages) = 5
    /\ PairedLog(messages)
    /\ messages[4].content = <<"hi">>
    /\ messages[5].content = <<>>
    /\ messages[5].isStreaming
    /\ Len(xhrs) = 2
    /\ xhrs[2].refreshed

\* The step is a progress, load or error event of request x.
EventOf(x) ==
    /\ xhrs[x].live
    /\ x \in DOMAIN xhrs'
    /\ \/ xhrs'[x].rcvd # xhrs[x].rcvd
       \/ ~xhrs'[x].live

\* C31: in the variant unnamed/part_000, an event of a request that was in
\* flight when stopStreaming was called changes no message and does not
\* change loading.
C31_StoppedRequestIsSilent ==
    [][\A x \in DOMAIN xhrs :
           xhrs[x].stopped /\ EventOf(x) =>
               /\ messages' = messages
               /\ loading' = loading]_vars

\* The step is the end of a refresh of sendMessage that succeeded: the three
\* setItem calls of its authenticate went through.
RefreshSucceeds(i) == calls[i].kind = "send" /\ StoreDone(i, Slots)

\* C32: the chat request a sendMessage opens after its refresh succeeded
\* carries the token and the session id that are current then, which are
\* those of one /auth response and not the ones sendMessage read before
\* the refresh.
C32_RequestCarriesCurrentCredential ==
    [][\A i \in DOMAIN calls :
          RefreshSucceeds(i) /\ xhrs'[Len(xhrs')].opened =>
              LET r == xhrs'[Len(xhrs')] IN
              /\ r.token = tokenRef' /\ r.sessionId = sessionIdRef'
              /\ r.token[2] = r.sessionId[2]
              /\ r.token # calls[i].ghost.heldToken
              /\ r.sessionId # calls[i].ghost.heldSession]_vars

\* A request was opened after a refresh that succeeded.
C32_Witness ==
    \E x \in DOMAIN xhrs :
        xhrs[x].opened /\ xhrs[x].refreshed /\ ~xhrs[x].refreshFailed

\* The stronger reading: the request carries the credential of the /auth
\* response of its own refresh.
RequestCarriesOwnRefresh ==
    [][\A i \in DOMAIN calls :
          RefreshSucceeds(i) /\ xhrs'[Len(xhrs')].opened =>
              xhrs'[Len(xhrs')].token = calls[i].cred.token]_vars

\* The session was reset, no authentication succeeded since, and no
\* authenticate call is in progress. (Read under SpecReset, where the app
\* starts authenticated and only a reset takes that away.)
Cleared == ~isAuthenticated /\ calls = <<>>

\* C33: after clearSession cleared the credential and until an
\* authentication succeeds, the three refs and the three stored slots are
\* empty.
C33_ClearedCredentialStaysCleared ==
    Cleared =>
        /\ tokenRef = NULL /\ sessionIdRef = NULL /\ tokenExpiryRef = NoNumber
        /\ storage = NoStore

\* The other half of C33: while the session is reset, no step opens a turn.
ClearedOpensNoTurn ==
    [][~isAuthenticated => nSends' = nSends /\ Len(xhrs') = Len(xhrs)]_vars

\* The request of turn x is over: it completed, failed or was aborted.
Terminated(x) == x \in DOMAIN xhrs /\ xhrs[x].ended # "none"

\* The turn x is over for the user: loading is false and no placeholder of
\* the turn is streaming.
TurnOver(x) == ~loading /\ \A i \in PlaceholdersOf(x) : ~messages[i].isStreaming

\* C34: once the request of a turn is over, loading is eventually false
\* with the placeholder of the turn not streaming.
C34_TurnTerminates == \A x \in 1..MaxSends : Terminated(x) ~> TurnOver(x)

\* C35: the ids of the messages of the log are pairwise distinct.
C35_IdsDistinct ==
    \A i, j \in DOMAIN messages : i # j => messages[i].id # messages[j].id

\* C36: while loading is false no message of the log is streaming.
C36_IdleMeansNoStreaming == ~loading => Streaming = {}

\* The step is the finally block of turn k.
App2_Cleanup(k) == turns[k].pc # "over" /\ turns'[k].pc = "over"

\* The turns after turn k that are not over.
App2_Newer(k) == {j \in DOMAIN turns : j > k /\ turns[j].pc # "over"}

\* C37: in the polling variant, the finally block of a cancelled turn leaves
\* streamingRef, currentStreamingIdRef, abortControllerRef and loading as
\* they are when a newer turn is under way.
C37_CleanupSparesNewerTurn ==
    [][\A k \in DOMAIN turns :
          App2_Cleanup(k) /\ App2_Newer(k) # {} =>
              UNCHANGED <<streamingRef, currentStreamingIdRef, abortControllerRef,
                          loading>>]_vars

\* The credential of the refs, as a record of the three slots.
InMemory == [token |-> tokenRef, session |-> sessionIdRef, expiry |-> tokenExpiryRef]

\* C38: while no asynchronous call is under way, the refs and AsyncStorage
\* hold the same credential or both hold none.
C38_MemoryAgreesWithStorage == calls = <<>> => InMemory = storage

\* The refs hold the credential of an /auth response that AsyncStorage does
\* not hold whole, and no call is under way.
AheadOfStorage ==
    /\ calls = <<>>
    /\ tokenRef # NULL /\ tokenRef[2] > 0
    /\ InMemory # storage

====
